---- MODULE Spec2Model ----
(***************************************************************************)
(* State-machine model of transcription_server.py: the ingestion queue and *)
(* its single worker, the per-device recording state, the device registry  *)
(* and the SSE broadcaster.  Every lock of the program guards a block that *)
(* is one step here, except recording_lock, which bulk toggle holds across *)
(* several steps and which is therefore a variable.                        *)
(***************************************************************************)
EXTENDS Integers, Sequences, FiniteSets, TLC

(* ------------------------------ bounds -------------------------------- *)
\* number of /audio uploads that arrive in a run
MaxJobs == 3
\* number of /record/start and /record/stop requests that arrive in a run
MaxRecOps == 2
\* number of requests (/audio, /record/start, /record/stop) in a run that mixes them
MaxIngestReq == 3
\* the clock stops here
MaxTime == 12
\* items per list or dict given to clean_json_data
MaxItems == 1
\* largest ordinary clip_count or i2s_errors hint
MaxCount == 6
\* samples per buffer given to the analyzer and the DC corrector
MaxSamples == 3
\* calls of a model accessor by one thread
MaxCalls == 3

(* --------------------------- program constants ------------------------ *)
DEVICE_TIMEOUT_SECONDS == 10
\* save_wav_file: a DC offset above this many sample units is removed
DC_REMOVAL_THRESHOLD == 10
DEFAULT_SAMPLE_RATE == 16000
DEFAULT_CHANNELS == 1

Devices == {"d1", "d2"}
\* item = None: the worker holds no item
NoItem == [job |-> 0]

(* ------------------------------ state --------------------------------- *)
VARIABLES
    recording_state,      \* dict device_id -> BOOLEAN (a function on the keys set so far)
    recording_lock,       \* "free", or the thread inside "with recording_lock"
    rec_req,              \* the /record/start and /record/stop requests so far
    status_resp,          \* the last answer to a query of all recording states: its path and body
    mutations,            \* history: how often each (device, value) was written to recording_state
    kb,                   \* keyboard_listener: position and locals of the bulk toggle
    sse_clients,          \* list of registered observer channels
    sse_pc,               \* per channel: position of its handle_sse thread
    sse_status,           \* per channel: the status snapshot handle_sse took
    chan_ok,              \* per channel: writes to it succeed (FALSE once it is broken)
    written,              \* per channel: the events written to it, in order
    sse_since,            \* history: per channel, the number of broadcasts before it registered
    broadcasts,           \* history: the messages broadcast_sse was called with, in order
    active_devices,       \* dict device_id -> {last_seen, ip}, in insertion order
    now,                  \* the clock, in seconds
    gd_req,               \* the /devices handler: position, its "now", entries swept and returned
    touched,              \* history: the devices that polled /status so far
    transcription_queue,  \* list of queue items
    audio_req,            \* the /audio requests so far: their parameters and position
    worker_pc,            \* per worker thread: position in transcription_worker
    worker_item,          \* per worker thread: the item it popped (NoItem before)
    enqueued,             \* history: job ids in the order they were appended to the queue
    enqueued_while,       \* history: the recording state of the job's device at each append
    attempts,             \* history: job ids in the order process_recording_standalone started
    in_progress,          \* history: job ids whose process_recording_standalone call is running
    finished,             \* history: job ids whose process_recording_standalone call returned
    clean_call,           \* a clean_json_data call: position, argument and results
    score_call,           \* a quality score computation: position, audio_quality and result
    dsp_call,             \* an analysis and correction of one buffer: position, arguments, results
    job,                  \* one process_recording_standalone call: position, arguments, locals, files
    whisper_method,       \* TranscriptionServer.whisper_method, set by main
    engine_calls,         \* per job: the call of the transcription engine, its timeout and end
    whisper_model,        \* per library: whisper_model_faster, whisper_model_openai (0 is None)
    whisper_model_lock,   \* "free", or the thread inside "with whisper_model_lock"
    loader,               \* per calling thread: position in the accessor, library, calls made
    constructed,          \* history: per library, the number of models constructed
    model_returns,        \* history: what the accessor calls returned, with the global then
    lock_holder,          \* per lock of the module: "free" or the thread that holds it
    lock_pc,              \* per thread: position in the sequence of its lock operations
    sse_lock,             \* "free", or the thread inside "with sse_lock"
    sweep,                \* per broadcasting thread: position and locals of its broadcast_sse call
    writing,              \* per channel: the threads inside a write to it
    wire                  \* per channel: the pieces of events written to it, in order

recVars == <<recording_state, recording_lock, rec_req, status_resp, mutations>>
sseVars == <<sse_clients, sse_pc, sse_status, chan_ok, written, sse_since, broadcasts>>
devVars == <<active_devices, now, gd_req, touched>>
queueVars == <<transcription_queue, audio_req, worker_pc, worker_item, enqueued,
               enqueued_while, attempts, in_progress, finished>>
engineVars == <<whisper_method, engine_calls>>
loadVars == <<whisper_model, whisper_model_lock, loader, constructed, model_returns>>
lockVars == <<lock_holder, lock_pc>>
wireVars == <<sse_lock, sweep, writing, wire>>
calcVars == <<clean_call, score_call, dsp_call, job, engineVars, loadVars, lockVars, wireVars>>

vars == <<recVars, kb, sseVars, devVars, queueVars, calcVars>>

(* ------------------------------ helpers ------------------------------- *)
Abs(x) == IF x < 0 THEN -x ELSE x

Range(s) == {s[i] : i \in 1..Len(s)}

IsPrefix(s, t) == Len(s) <= Len(t) /\ \A i \in 1..Len(s) : s[i] = t[i]

RECURSIVE SumSeq(_)
SumSeq(s) == IF s = <<>> THEN 0 ELSE s[1] + SumSeq(Tail(s))

\* recording_state.get(device_id, False)
GetRecording(d) == IF d \in DOMAIN recording_state THEN recording_state[d] ELSE FALSE

(* ---------------------- PCM decoding (analyzer) ----------------------- *)
\* bits_per_sample // 8
BytesPerSample(bits) == bits \div 8

\* struct.unpack('<h', two bytes)
Unpack16(lo, hi) ==
    LET u == lo + 256 * hi IN IF u >= 32768 THEN u - 65536 ELSE u

\* struct.unpack('<b', one byte)
Unpack8(b) == IF b >= 128 THEN b - 256 ELSE b

\* analyze_audio_quality's loop: range(0, len - bytes_per_sample + 1, bytes_per_sample);
\* a trailing partial sample is not read
Samples(pcm, bits) ==
    IF bits = 16
    THEN [k \in 1..(Len(pcm) \div 2) |-> Unpack16(pcm[2 * k - 1], pcm[2 * k])]
    ELSE [k \in 1..Len(pcm) |-> Unpack8(pcm[k])]

\* struct.pack('<h', v) and struct.pack('<b', v)
Pack16(v) == LET u == IF v < 0 THEN v + 65536 ELSE v IN <<u % 256, u \div 256>>
Pack8(v) == <<IF v < 0 THEN v + 256 ELSE v>>

\* struct.pack of a list of samples
RECURSIVE Pack(_, _)
Pack(s, bits) ==
    IF s = <<>> THEN <<>>
    ELSE (IF bits = 16 THEN Pack16(s[1]) ELSE Pack8(s[1])) \o Pack(Tail(s), bits)

\* analyze_audio_quality returns {'error': ...} (needs bytes_per_sample > 0)
AnalysisIsError(pcm, bits) ==
    \/ Len(pcm) = 0
    \/ Len(pcm) \div BytesPerSample(bits) = 0
    \/ bits \notin {8, 16}

\* abs(analysis['dc_offset']) > 10 with dc_offset = round(sum / n, 1): the rounded
\* mean exceeds 10 exactly when |sum| / n >= 10.05
DcOffsetSignificant(pcm, bits) ==
    LET s == Samples(pcm, bits)
    IN  Abs(SumSeq(s)) * 100 >= (DC_REMOVAL_THRESHOLD * 100 + 5) * Len(s)

\* remove_dc_offset raises struct.error: unpack of '<{len//2}h' needs exactly
\* 2 * (len // 2) bytes
RemoveDcRaises(pcm, bits) == bits = 16 /\ Len(pcm) % 2 = 1

(* ----------------------- analyze_audio_quality ------------------------ *)
\* max_amplitude of the bit depth
MaxAmplitude(bits) == IF bits = 16 THEN 32767 ELSE 127

\* round(a / b) for b > 0, a tie going to the even neighbour (Python's round of
\* a value that is exact in binary)
RoundDiv(a, b) ==
    LET q == a \div b
        r == a % b
    IN  IF 2 * r < b THEN q
        ELSE IF 2 * r > b THEN q + 1
        ELSE IF q % 2 = 0 THEN q ELSE q + 1

\* int(a / b) for b > 0: the quotient truncated towards zero
TruncDiv(a, b) == IF a >= 0 THEN a \div b ELSE 0 - ((0 - a) \div b)

\* if abs(sample) > abs(max_val): max_val = sample
RECURSIVE TrackMax(_, _)
TrackMax(s, max_val) ==
    IF s = <<>> THEN max_val
    ELSE TrackMax(Tail(s), IF Abs(s[1]) > Abs(max_val) THEN s[1] ELSE max_val)

\* if abs(sample) < abs(min_val) or min_val == 0: min_val = sample
RECURSIVE TrackMin(_, _)
TrackMin(s, min_val) ==
    IF s = <<>> THEN min_val
    ELSE TrackMin(Tail(s), IF Abs(s[1]) < Abs(min_val) \/ min_val = 0 THEN s[1] ELSE min_val)

ZeroSamples_nonzero(s) == Len(SelectSeq(s, LAMBDA x : x # 0))
\* zero_samples: if sample == 0
ZeroSamples(s) == Len(SelectSeq(s, LAMBDA x : x = 0))

\* clip_count: if abs(sample) >= max_amplitude * 0.95
ClipCount(s, bits) == Len(SelectSeq(s, LAMBDA x : 100 * Abs(x) >= 95 * MaxAmplitude(bits)))

\* len(samples) * ac_sum_squares, with ac_sum_squares = sum((s - dc_offset) ** 2)
\* and dc_offset the mean: the sum of (s[i] - s[j])^2 over the pairs i < j
AcSumSquaresTimesN(s) ==
    LET n == Len(s)
        i(k) == ((k - 1) \div n) + 1
        j(k) == ((k - 1) % n) + 1
    IN  SumSeq([k \in 1..(n * n) |->
                   IF i(k) < j(k) THEN (s[i(k)] - s[j(k)]) * (s[i(k)] - s[j(k)]) ELSE 0])

\* db_level < -40, with db_level = 20 * log10(rms / max_amplitude) and -100.0
\* for rms = 0: rms < max_amplitude / 100, that is
\* n * ac_sum_squares < max_amplitude^2 * n^2 / 10000, which no buffer meets
\* that has two samples further apart than max_amplitude * n / 100
VeryQuiet(s, bits) ==
    LET a == MaxAmplitude(bits) * MaxAmplitude(bits)
        n2 == Len(s) * Len(s)
    IN  /\ \A i, j \in 1..Len(s) : 100 * Abs(s[i] - s[j]) <= MaxAmplitude(bits) * Len(s)
        /\ AcSumSquaresTimesN(s) <= (a \div 10000) * n2 + ((a % 10000) * n2) \div 10000

\* the checks of "Detect potential issues", in their order
IssueChecks(s, sample_rate, bits) ==
    << [issue |-> "Large DC offset",
        found |-> 10 * Abs(SumSeq(s)) > MaxAmplitude(bits) * Len(s)],
       [issue |-> "Very narrow sample range",
        found |-> TrackMax(s, 0) - TrackMin(s, 0) < 100],
       [issue |-> "High zero samples", found |-> 2 * ZeroSamples(s) > Len(s)],
       [issue |-> "Clipping detected", found |-> 100 * ClipCount(s, bits) > Len(s)],
       [issue |-> "Very quiet audio", found |-> VeryQuiet(s, bits)],
       [issue |-> "Very short audio", found |-> 10 * Len(s) < sample_rate] >>

\* issues: the names of the checks that fired
Issues(s, sample_rate, bits) ==
    LET found == SelectSeq(IssueChecks(s, sample_rate, bits), LAMBDA c : c.found)
    IN  [k \in 1..Len(found) |-> found[k].issue]

\* the dict returned for decoded samples; dc_offset and zero_percentage are
\* rounded to one decimal and kept in tenths; rms and db_level enter through
\* the "Very quiet audio" check only
AnalysisResult(s, sample_rate, bits) ==
    [outcome |-> "result",
     num_samples |-> Len(s),
     dc_offset |-> RoundDiv(10 * SumSeq(s), Len(s)),
     sample_range |-> TrackMax(s, 0) - TrackMin(s, 0),
     max_amplitude |-> TrackMax(s, 0),
     min_amplitude |-> TrackMin(s, 0),
     zero_samples |-> ZeroSamples(s),
     zero_percentage |-> RoundDiv(1000 * ZeroSamples(s), Len(s)),
     clip_count |-> ClipCount(s, bits),
     issues |-> Issues(s, sample_rate, bits),
     data_integrity |-> IF Issues(s, sample_rate, bits) = <<>> THEN "good"
                        ELSE "issues_detected"]

AnalysisError(msg) == [outcome |-> "error", error |-> msg]

\* analyze_audio_quality(pcm_data, sample_rate, channels, bits_per_sample);
\* len(pcm_data) // bytes_per_sample raises ZeroDivisionError for a depth
\* without a whole byte
analyze_audio_quality(pcm, sample_rate, bits) ==
    IF Len(pcm) = 0 THEN AnalysisError("Empty audio data")
    ELSE IF BytesPerSample(bits) = 0 THEN [outcome |-> "raised", error |-> "ZeroDivisionError"]
    ELSE IF Len(pcm) \div BytesPerSample(bits) = 0 THEN AnalysisError("No samples in audio data")
    ELSE IF bits \notin {8, 16} THEN AnalysisError("Unsupported bit depth")
    ELSE AnalysisResult(Samples(pcm, bits), sample_rate, bits)

(* -------------------------- remove_dc_offset --------------------------- *)
\* corrected_samples = [int(s - dc_offset) for s in samples], dc_offset = sum / len
CorrectedSamples(s) == [k \in 1..Len(s) |-> TruncDiv(s[k] * Len(s) - SumSeq(s), Len(s))]

\* filtered[0] = corrected[0];
\* filtered[i] = int(corrected[i] - corrected[i-1] + 0.95 * filtered[i-1])
RECURSIVE Filtered(_, _)
Filtered(c, i) ==
    IF i = 1 THEN <<c[1]>>
    ELSE LET f == Filtered(c, i - 1)
         IN  Append(f, TruncDiv(100 * (c[i] - c[i - 1]) + 95 * f[i - 1], 100))

\* max(-32768, min(32767, s)), max(-128, min(127, s))
ClampSample(x, bits) ==
    LET hi == IF bits = 16 THEN 32767 ELSE 127
        lo == IF bits = 16 THEN 0 - 32768 ELSE 0 - 128
    IN  IF x > hi THEN hi ELSE IF x < lo THEN lo ELSE x

\* remove_dc_offset(pcm_data, bits_per_sample), for a buffer it can unpack
remove_dc_offset(pcm, bits) ==
    IF Len(pcm) = 0 \/ bits \notin {8, 16} THEN pcm
    ELSE LET s == Samples(pcm, bits)
         IN  IF Len(s) = 0 THEN pcm
             ELSE LET f == Filtered(CorrectedSamples(s), Len(s))
                  IN  Pack([k \in 1..Len(f) |-> ClampSample(f[k], bits)], bits)

(* --------------------------- dictionaries ----------------------------- *)
\* an empty dict
EmptyDict == [k \in {} |-> FALSE]

DictSet_default(f, key, value) ==
    [k \in DOMAIN f \cup {key} |-> IF k \in DOMAIN f THEN f[k] ELSE value]
\* d[key] = value
DictSet(f, key, value) == [k \in DOMAIN f \cup {key} |-> IF k = key THEN value ELSE f[k]]

(* -------------------------- clean_json_data --------------------------- *)
\* Python values: None, a str, a float (its repr), a list, a dict (its items in order)
PyNone == [type |-> "NoneType"]
PyStr(v) == [type |-> "str", v |-> v]
PyFloat(v) == [type |-> "float", v |-> v]
PyList(items) == [type |-> "list", items |-> items]
PyDict(items) == [type |-> "dict", items |-> items]

\* math.isnan(data) or math.isinf(data)
IsNanOrInf(data) == data.v \in {"nan", "inf", "-inf"}

clean_json_data_shallow(data) ==
    IF data.type = "float" /\ IsNanOrInf(data) THEN PyNone ELSE data
\* clean_json_data(data)
RECURSIVE clean_json_data(_)
clean_json_data(data) ==
    IF data.type = "dict"
    THEN PyDict([i \in 1..Len(data.items) |->
                    [k |-> data.items[i].k, v |-> clean_json_data(data.items[i].v)]])
    ELSE IF data.type = "list"
    THEN PyList([i \in 1..Len(data.items) |-> clean_json_data(data.items[i])])
    ELSE IF data.type = "float"
    THEN IF IsNanOrInf(data) THEN PyNone ELSE data
    ELSE data

\* inputs: scalars, and lists and dicts of up to MaxItems values, two levels deep
Scalars == {PyNone, PyStr("x"), PyFloat("1.5"), PyFloat("nan"), PyFloat("inf"), PyFloat("-inf")}
Keys == <<"a", "b", "c">>
ListsOf(vals) == UNION {[1..n -> vals] : n \in 0..MaxItems}
DictsOf(vals) ==
    {[i \in 1..Len(vs) |-> [k |-> Keys[i], v |-> vs[i]]] : vs \in ListsOf(vals)}
Containers(vals) == {PyList(l) : l \in ListsOf(vals)} \cup {PyDict(d) : d \in DictsOf(vals)}
Level1 == Scalars \cup Containers(Scalars)
Level2 == Level1 \cup Containers(Level1)
\* a list and a dict that mix finite and non-finite floats
MixedInputs ==
    { PyList(<<PyFloat("nan"), PyFloat("1.5"), PyList(<<PyFloat("inf")>>)>>),
      PyDict(<<[k |-> "a", v |-> PyFloat("1.5")],
               [k |-> "b", v |-> PyDict(<<[k |-> "a", v |-> PyFloat("-inf")]>>)]>>) }
CleanInputs == Level2 \cup MixedInputs

\* metadata = clean_json_data(metadata)
CleanOnce ==
    /\ clean_call.pc = "call"
    /\ clean_call' = [clean_call EXCEPT !.pc = "once", !.once = clean_json_data(clean_call.data)]
    /\ UNCHANGED <<score_call, dsp_call, job, engineVars, loadVars, lockVars, wireVars>>
    /\ UNCHANGED <<recVars, kb, sseVars, devVars, queueVars>>

\* broadcast_data = clean_json_data(broadcast_data); broadcast_sse cleans once more
CleanAgain ==
    /\ clean_call.pc = "once"
    /\ clean_call' = [clean_call EXCEPT !.pc = "twice", !.twice = clean_json_data(clean_call.once)]
    /\ UNCHANGED <<score_call, dsp_call, job, engineVars, loadVars, lockVars, wireVars>>
    /\ UNCHANGED <<recVars, kb, sseVars, devVars, queueVars>>

(* ------------------- analysis and correction calls -------------------- *)
\* sample values of the buffers analysed and corrected
SampleValues == {0 - 128, 0 - 4, 0, 2, 100, 127}
SampleSeqs == UNION {[1..n -> SampleValues] : n \in 0..MaxSamples}
\* bits_per_sample as the query parameter 'bits' gives it
BitDepths == {4, 8, 16, 24}
\* sample_rate as the query parameter 'rate' gives it
SampleRates == {10, DEFAULT_SAMPLE_RATE}

\* the buffers: whole samples of either supported depth, a 16-bit buffer with a
\* trailing byte, and the same bytes read at an unsupported depth
Buffers(bits) ==
    IF bits \in {8, 16}
    THEN {Pack(s, bits) : s \in SampleSeqs}
         \cup (IF bits = 16 THEN {Pack(<<100, 100>>, 16) \o <<7>>} ELSE {})
    ELSE {<<>>, <<0, 0>>, <<0, 0, 0, 0>>}

DspCalls ==
    {[pc |-> "call", pcm |-> b, sample_rate |-> r, bits |-> bits,
      analysis |-> AnalysisError(""), first |-> <<>>, second |-> <<>>] :
        bits \in BitDepths, r \in SampleRates, b \in UNION {Buffers(d) : d \in BitDepths}}

\* analysis = analyze_audio_quality(pcm_data, sample_rate, channels, bits_per_sample)
AnalyzeCall ==
    /\ dsp_call.pc = "call"
    /\ dsp_call' = [dsp_call EXCEPT
            !.pc = "analyzed",
            !.analysis = analyze_audio_quality(dsp_call.pcm, dsp_call.sample_rate, dsp_call.bits)]
    /\ UNCHANGED <<clean_call, score_call, job, engineVars, loadVars, lockVars, wireVars>>
    /\ UNCHANGED <<recVars, kb, sseVars, devVars, queueVars>>

\* pcm_data = remove_dc_offset(pcm_data, bits_per_sample)
CorrectOnce ==
    /\ dsp_call.pc = "analyzed"
    /\ IF RemoveDcRaises(dsp_call.pcm, dsp_call.bits)
       THEN dsp_call' = [dsp_call EXCEPT !.pc = "raised"]
       ELSE dsp_call' = [dsp_call EXCEPT !.pc = "once",
                            !.first = remove_dc_offset(dsp_call.pcm, dsp_call.bits)]
    /\ UNCHANGED <<clean_call, score_call, job, engineVars, loadVars, lockVars, wireVars>>
    /\ UNCHANGED <<recVars, kb, sseVars, devVars, queueVars>>

\* remove_dc_offset applied to its own output
CorrectAgain ==
    /\ dsp_call.pc = "once"
    /\ dsp_call' = [dsp_call EXCEPT !.pc = "twice",
                        !.second = remove_dc_offset(dsp_call.first, dsp_call.bits)]
    /\ UNCHANGED <<clean_call, score_call, job, engineVars, loadVars, lockVars, wireVars>>
    /\ UNCHANGED <<recVars, kb, sseVars, devVars, queueVars>>

(* --------------------------- quality score ---------------------------- *)
\* an int: n, or with big # 0 the value big * 10^400, beyond the range of a float
Num(n) == [big |-> 0, n |-> n]
BigNum(sign) == [big |-> sign, n |-> 0]

\* bool(x) of an int
Truthy(x) == x.big # 0 \/ x.n # 0

\* x * k for an int k > 0
Times(x, k) == IF x.big # 0 THEN x ELSE Num(x.n * k)

\* min(x, m) for an ordinary int m
MinInt(x, m) ==
    IF x.big = 1 THEN Num(m)
    ELSE IF x.big = -1 THEN x
    ELSE Num(IF x.n < m THEN x.n ELSE m)

\* float - int raises OverflowError: int too large to convert to float
FloatSubRaises(y) == y.big # 0

\* a float hint: NaN, +/-Infinity or a finite value
FloatVal(kind, n) == [kind |-> kind, n |-> n]
FloatLt(x, c) == x.kind = "-inf" \/ (x.kind = "fin" /\ x.n < c)
FloatGt(x, c) == x.kind = "inf" \/ (x.kind = "fin" /\ x.n > c)

\* the number of checks in analyze_audio_quality that append an issue
MAX_ISSUES == 6

\* min(30, ...) and min(40, ...): the caps of the two count penalties
CLIP_PENALTY_CAP == 30
I2S_PENALTY_CAP == 40

Has(aq, key) == key \in DOMAIN aq

\* quality_score -= min(audio_quality['clip_count'] * 5, 30)
ClipPenalty(aq) ==
    IF Has(aq, "clip_count") /\ Truthy(aq["clip_count"])
    THEN MinInt(Times(aq["clip_count"], 5), CLIP_PENALTY_CAP)
    ELSE Num(0)

\* silence_pct = silence_chunks / total_chunks * 100: 20 above 50, 10 above 30
SilencePenalty(aq) ==
    IF Has(aq, "silence_chunks") /\ Has(aq, "total_chunks") /\ aq["total_chunks"] > 0
    THEN IF aq["silence_chunks"] * 100 > 50 * aq["total_chunks"] THEN 20
         ELSE IF aq["silence_chunks"] * 100 > 30 * aq["total_chunks"] THEN 10
         ELSE 0
    ELSE 0

I2sPenalty_flat(aq) ==
    IF Has(aq, "i2s_errors") /\ Truthy(aq["i2s_errors"])
    THEN IF aq["i2s_errors"].big = 0 /\ aq["i2s_errors"].n % 2 = 0 THEN Num(I2S_PENALTY_CAP)
         ELSE Num(10)
    ELSE Num(0)
\* quality_score -= min(audio_quality['i2s_errors'] * 10, 40)
I2sPenalty(aq) ==
    IF Has(aq, "i2s_errors") /\ Truthy(aq["i2s_errors"])
    THEN MinInt(Times(aq["i2s_errors"], 10), I2S_PENALTY_CAP)
    ELSE Num(0)

\* avg_db_val < -30: 15; avg_db_val > -6: 10 (both comparisons are False for NaN)
LevelPenalty(aq) ==
    IF Has(aq, "avg_db")
    THEN IF FloatLt(aq["avg_db"], -30) THEN 15
         ELSE IF FloatGt(aq["avg_db"], -6) THEN 10
         ELSE 0
    ELSE 0

\* data_integrity != 'good': 20; len(issues) * 5; zero_percentage > 50: 15
\* (issues is the length of the list, zero_percentage is in tenths of a percent)
AnalysisPenalty(aq) ==
    IF Has(aq, "server_analysis")
    THEN LET sa == aq["server_analysis"]
         IN  (IF sa.data_integrity # "good" THEN 20 ELSE 0)
             + sa.issues * 5
             + (IF sa.zero_percentage > 500 THEN 15 ELSE 0)
    ELSE 0

\* max(0, min(100, quality_score))
Clamp(x) == IF x > 100 THEN 100 ELSE IF x < 0 THEN 0 ELSE x

\* the score block of process_recording_standalone: what it leaves in
\* metadata['quality_score'], or that a subtraction raised
QualityScore(aq) ==
    IF DOMAIN aq = {} THEN [outcome |-> "none", score |-> 0]
    ELSE IF FloatSubRaises(ClipPenalty(aq)) \/ FloatSubRaises(I2sPenalty(aq))
    THEN [outcome |-> "raised", score |-> 0]
    ELSE [outcome |-> "score",
          score |-> Clamp(100 - ClipPenalty(aq).n - SilencePenalty(aq) - I2sPenalty(aq).n
                              - LevelPenalty(aq) - AnalysisPenalty(aq))]

\* the hints of an upload and the analysis of its audio
CountHints == {BigNum(-1), BigNum(1)} \cup {Num(n) : n \in (0 - 2)..MaxCount}
SilenceHints == {<<4, 10>>, <<6, 10>>, <<5, 0>>}
LevelHints == {FloatVal("nan", 0), FloatVal("inf", 0), FloatVal("-inf", 0), FloatVal("fin", -20)}
Analyses == [data_integrity : {"good", "issues_detected"}, issues : 0..MAX_ISSUES,
             zero_percentage : {0, 600}]
Opt(S) == {<<>>} \cup {<<v>> : v \in S}

\* the audio_quality dict with the keys that are present
AudioQuality(c, i, s, a, sa) ==
    LET all == [clip_count |-> c, i2s_errors |-> i,
                silence_chunks |-> IF s = <<>> THEN s ELSE <<s[1][1]>>,
                total_chunks |-> IF s = <<>> THEN s ELSE <<s[1][2]>>,
                avg_db |-> a, server_analysis |-> sa]
        keys == {k \in DOMAIN all : Len(all[k]) = 1}
    IN  [k \in keys |-> all[k][1]]

AudioQualities ==
    {AudioQuality(c, i, s, a, sa) :
        c \in Opt(CountHints), i \in Opt(CountHints), s \in Opt(SilenceHints),
        a \in Opt(LevelHints), sa \in Opt(Analyses)}

\* if audio_quality: ... metadata['quality_score'] = round(float(quality_score), 1)
ComputeScore ==
    /\ score_call.pc = "call"
    /\ score_call' = [score_call EXCEPT !.pc = "done",
                                         !.result = QualityScore(score_call.audio_quality)]
    /\ UNCHANGED <<clean_call, dsp_call, job, engineVars, loadVars, lockVars, wireVars>>
    /\ UNCHANGED <<recVars, kb, sseVars, devVars, queueVars>>

(* --------------------------- broadcast_sse ---------------------------- *)
Channels == {"c1", "c2"}

DeviceStatusMsg(d, v) ==
    [event |-> "device_status", data |-> [device_id |-> d, recording |-> v]]

StatusMsg(snapshot) == [event |-> "status", data |-> [devices |-> snapshot]]

\* the record of a finished job (its device and, standing for its timestamp,
\* transcript and statistics, its job id)
TranscriptMsg(item) ==
    [event |-> "transcript", data |-> [device_id |-> item.device_id, job |-> item.job]]

RECURSIVE SweepWrites_front(_, _, _)
SweepWrites_front(clients, msg, w) ==
    IF clients = <<>> THEN w
    ELSE SweepWrites_front(Tail(clients), msg,
                           IF chan_ok[Head(clients)]
                           THEN [w EXCEPT ![Head(clients)] = <<msg>> \o @]
                           ELSE w)
RECURSIVE SweepWrites_stop(_, _, _)
SweepWrites_stop(clients, msg, w) ==
    IF clients = <<>> \/ ~chan_ok[Head(clients)] THEN w
    ELSE SweepWrites_stop(Tail(clients), msg, [w EXCEPT ![Head(clients)] = Append(@, msg)])
\* for client in sse_clients: client.write(message); client.flush()
RECURSIVE SweepWrites(_, _, _)
SweepWrites(clients, msg, w) ==
    IF clients = <<>> THEN w
    ELSE SweepWrites(Tail(clients), msg,
                     IF chan_ok[Head(clients)]
                     THEN [w EXCEPT ![Head(clients)] = Append(@, msg)]
                     ELSE w)

\* except: dead_clients.append(client)
DeadClients(clients) == SelectSeq(clients, LAMBDA c : ~chan_ok[c])

\* list.remove(x): drops the first occurrence
RECURSIVE ListRemove(_, _)
ListRemove(l, x) ==
    IF l = <<>> THEN l
    ELSE IF Head(l) = x THEN Tail(l) ELSE <<Head(l)>> \o ListRemove(Tail(l), x)

\* for client in dead_clients: sse_clients.remove(client)
RECURSIVE RemoveClients(_, _)
RemoveClients(l, dead) ==
    IF dead = <<>> THEN l ELSE RemoveClients(ListRemove(l, Head(dead)), Tail(dead))

broadcast_sse_later(msg) ==
    /\ broadcasts' = Append(broadcasts, msg)
    /\ UNCHANGED <<sse_clients, sse_pc, sse_status, chan_ok, written, sse_since>>
broadcast_sse_dedup(msg) ==
    IF broadcasts # <<>> /\ broadcasts[Len(broadcasts)] = msg
    THEN UNCHANGED sseVars
    ELSE /\ written' = SweepWrites(sse_clients, msg, written)
         /\ sse_clients' = RemoveClients(sse_clients, DeadClients(sse_clients))
         /\ broadcasts' = Append(broadcasts, msg)
         /\ UNCHANGED <<sse_pc, sse_status, chan_ok, sse_since>>
\* broadcast_sse(event, data): the whole sweep runs under sse_lock
broadcast_sse(msg) ==
    /\ written' = SweepWrites(sse_clients, msg, written)
    /\ sse_clients' = RemoveClients(sse_clients, DeadClients(sse_clients))
    /\ broadcasts' = Append(broadcasts, msg)
    /\ UNCHANGED <<sse_pc, sse_status, chan_ok, sse_since>>

(* ----------------------------- /events -------------------------------- *)
\* with sse_lock: sse_clients.append(self.wfile)
SseRegister(c) ==
    /\ sse_pc[c] = "new"
    /\ chan_ok[c]
    /\ sse_clients' = Append(sse_clients, c)
    /\ sse_pc' = [sse_pc EXCEPT ![c] = "snapshot"]
    /\ sse_since' = [sse_since EXCEPT ![c] = Len(broadcasts)]
    /\ UNCHANGED <<sse_status, chan_ok, written, broadcasts>>
    /\ UNCHANGED <<recVars, kb, devVars, queueVars, calcVars>>

SseSnapshot_early(c) ==
    /\ sse_pc[c] = "snapshot"
    /\ recording_lock = "free"
    /\ sse_status' = [sse_status EXCEPT ![c] = EmptyDict]
    /\ sse_pc' = [sse_pc EXCEPT ![c] = "initial"]
    /\ UNCHANGED <<sse_clients, chan_ok, written, sse_since, broadcasts>>
    /\ UNCHANGED <<recVars, kb, devVars, queueVars, calcVars>>
\* with recording_lock: status_data = {"devices": recording_state.copy()}
SseSnapshot(c) ==
    /\ sse_pc[c] = "snapshot"
    /\ recording_lock = "free"
    /\ sse_status' = [sse_status EXCEPT ![c] = recording_state]
    /\ sse_pc' = [sse_pc EXCEPT ![c] = "initial"]
    /\ UNCHANGED <<sse_clients, chan_ok, written, sse_since, broadcasts>>
    /\ UNCHANGED <<recVars, kb, devVars, queueVars, calcVars>>

\* self.wfile.write(status_msg); a failed write leaves through "finally"
SseInitial(c) ==
    /\ sse_pc[c] = "initial"
    /\ IF chan_ok[c]
       THEN /\ written' = [written EXCEPT ![c] = Append(@, StatusMsg(sse_status[c]))]
            /\ sse_pc' = [sse_pc EXCEPT ![c] = "keepalive"]
       ELSE /\ sse_pc' = [sse_pc EXCEPT ![c] = "finally"]
            /\ UNCHANGED written
    /\ UNCHANGED <<sse_clients, sse_status, chan_ok, sse_since, broadcasts>>
    /\ UNCHANGED <<recVars, kb, devVars, queueVars, calcVars>>

\* time.sleep(30); self.wfile.write(b": keepalive\n\n"): a comment line, which
\* is no event; a failed write leaves through "finally"
SseKeepalive(c) ==
    /\ sse_pc[c] = "keepalive"
    /\ sse_pc' = [sse_pc EXCEPT ![c] = IF chan_ok[c] THEN "keepalive" ELSE "finally"]
    /\ UNCHANGED <<sse_clients, sse_status, chan_ok, written, sse_since, broadcasts>>
    /\ UNCHANGED <<recVars, kb, devVars, queueVars, calcVars>>

SseUnregister_pop(c) ==
    /\ sse_pc[c] = "finally"
    /\ sse_clients' = SubSeq(sse_clients, 1, Len(sse_clients) - 1)
    /\ sse_pc' = [sse_pc EXCEPT ![c] = "closed"]
    /\ UNCHANGED <<sse_status, chan_ok, written, sse_since, broadcasts>>
    /\ UNCHANGED <<recVars, kb, devVars, queueVars, calcVars>>
\* finally: with sse_lock: if self.wfile in sse_clients: sse_clients.remove(self.wfile)
SseUnregister(c) ==
    /\ sse_pc[c] = "finally"
    /\ sse_clients' = ListRemove(sse_clients, c)
    /\ sse_pc' = [sse_pc EXCEPT ![c] = "closed"]
    /\ UNCHANGED <<sse_status, chan_ok, written, sse_since, broadcasts>>
    /\ UNCHANGED <<recVars, kb, devVars, queueVars, calcVars>>

\* the peer goes away: from now on a write to the channel raises
ChannelBreak(c) ==
    /\ sse_pc[c] \notin {"new", "closed"}
    /\ chan_ok[c]
    /\ chan_ok' = [chan_ok EXCEPT ![c] = FALSE]
    /\ UNCHANGED <<sse_clients, sse_pc, sse_status, written, sse_since, broadcasts>>
    /\ UNCHANGED <<recVars, kb, devVars, queueVars, calcVars>>

(* ------------------- /record/start and /record/stop ------------------- *)
\* the value handle_start_recording / handle_stop_recording writes
RecordValue(op) == op = "start"

RecordBadRequest_write(op) ==
    /\ rec_req' = Append(rec_req, [op |-> op, device_id |-> "", pc |-> "done", code |-> 400])
    /\ recording_state' = DictSet(recording_state, "", RecordValue(op))
    /\ UNCHANGED <<recording_lock, status_resp, mutations>>
    /\ UNCHANGED <<kb, sseVars, devVars, queueVars, calcVars>>
\* if not device_id: 400 {"error": "device parameter required"}; return
RecordBadRequest(op) ==
    /\ rec_req' = Append(rec_req, [op |-> op, device_id |-> "", pc |-> "done", code |-> 400])
    /\ UNCHANGED <<recording_state, recording_lock, status_resp, mutations>>
    /\ UNCHANGED <<kb, sseVars, devVars, queueVars, calcVars>>

RecordWrite_unlocked(op, d) ==
    /\ recording_state' = DictSet(recording_state, d, RecordValue(op))
    /\ mutations' = [mutations EXCEPT ![<<d, RecordValue(op)>>] = @ + 1]
    /\ rec_req' = Append(rec_req, [op |-> op, device_id |-> d, pc |-> "broadcast", code |-> 0])
    /\ UNCHANGED <<recording_lock, status_resp>>
    /\ UNCHANGED <<kb, sseVars, devVars, queueVars, calcVars>>
\* with recording_lock: recording_state[device_id] = True / False
RecordWrite(op, d) ==
    /\ recording_lock = "free"
    /\ recording_state' = DictSet(recording_state, d, RecordValue(op))
    /\ mutations' = [mutations EXCEPT ![<<d, RecordValue(op)>>] = @ + 1]
    /\ rec_req' = Append(rec_req, [op |-> op, device_id |-> d, pc |-> "broadcast", code |-> 0])
    /\ UNCHANGED <<recording_lock, status_resp>>
    /\ UNCHANGED <<kb, sseVars, devVars, queueVars, calcVars>>

\* broadcast_sse('device_status', {'device_id': device_id, 'recording': ...}),
\* then the 200 response, which touches no shared state
RecordBroadcast(r) ==
    /\ r \in 1..Len(rec_req)
    /\ rec_req[r].pc = "broadcast"
    /\ broadcast_sse(DeviceStatusMsg(rec_req[r].device_id, RecordValue(rec_req[r].op)))
    /\ rec_req' = [rec_req EXCEPT ![r].pc = "done", ![r].code = 200]
    /\ UNCHANGED <<recording_state, recording_lock, status_resp, mutations>>
    /\ UNCHANGED <<kb, devVars, queueVars, calcVars>>

(* ------------- broadcast_sse and /events, write by write -------------- *)
\* the threads that call broadcast_sse: a start handler and a stop handler
Broadcasters == {"start", "stop"}

\* the message of each
SweepMsg(b) == DeviceStatusMsg("d1", RecordValue(b))

NoSweep == [pc |-> "idle", i |-> 0, dead |-> <<>>]

\* a write reaches the socket in pieces: the first and the last piece of
\* message msg, written by thread by
Piece(msg, n, by) == [msg |-> msg, piece |-> n, by |-> by]

WireFrame ==
    /\ UNCHANGED <<clean_call, score_call, dsp_call, job, engineVars, loadVars, lockVars>>
    /\ UNCHANGED <<recVars, kb, devVars, queueVars>>

SweepStart_unlocked(b) ==
    /\ sweep[b].pc = "idle"
    /\ sweep' = [sweep EXCEPT ![b] = [pc |-> "sweep", i |-> 1, dead |-> <<>>]]
    /\ broadcasts' = Append(broadcasts, SweepMsg(b))
    /\ UNCHANGED <<sse_lock, writing, wire>>
    /\ UNCHANGED <<sse_clients, sse_pc, sse_status, chan_ok, written, sse_since>>
    /\ WireFrame
\* with sse_lock: dead_clients = []
SweepStart(b) ==
    /\ sweep[b].pc = "idle"
    /\ sse_lock = "free"
    /\ sse_lock' = b
    /\ sweep' = [sweep EXCEPT ![b] = [pc |-> "sweep", i |-> 1, dead |-> <<>>]]
    /\ broadcasts' = Append(broadcasts, SweepMsg(b))
    /\ UNCHANGED <<writing, wire>>
    /\ UNCHANGED <<sse_clients, sse_pc, sse_status, chan_ok, written, sse_since>>
    /\ WireFrame

\* for client in sse_clients: client.write(message) begins; on a broken
\* channel it raises and the client joins dead_clients
SweepWriteBegin(b) ==
    /\ sweep[b].pc = "sweep"
    /\ sweep[b].i <= Len(sse_clients)
    /\ LET c == sse_clients[sweep[b].i]
       IN  IF chan_ok[c]
           THEN /\ writing' = [writing EXCEPT ![c] = @ \cup {b}]
                /\ wire' = [wire EXCEPT ![c] = Append(@, Piece(SweepMsg(b), "first", b))]
                /\ sweep' = [sweep EXCEPT ![b].pc = "write"]
           ELSE /\ sweep' = [sweep EXCEPT ![b].i = @ + 1, ![b].dead = Append(@, c)]
                /\ UNCHANGED <<writing, wire>>
    /\ UNCHANGED <<sse_lock, broadcasts>>
    /\ UNCHANGED <<sse_clients, sse_pc, sse_status, chan_ok, written, sse_since>>
    /\ WireFrame

\* client.write(message) and client.flush() return
SweepWriteEnd(b) ==
    /\ sweep[b].pc = "write"
    /\ LET c == sse_clients[sweep[b].i]
       IN  /\ writing' = [writing EXCEPT ![c] = @ \ {b}]
           /\ wire' = [wire EXCEPT ![c] = Append(@, Piece(SweepMsg(b), "last", b))]
           /\ written' = [written EXCEPT ![c] = Append(@, SweepMsg(b))]
    /\ sweep' = [sweep EXCEPT ![b].pc = "sweep", ![b].i = @ + 1]
    /\ UNCHANGED <<sse_lock, broadcasts>>
    /\ UNCHANGED <<sse_clients, sse_pc, sse_status, chan_ok, sse_since>>
    /\ WireFrame

\* for client in dead_clients: sse_clients.remove(client); the with block ends
SweepRemove(b) ==
    /\ sweep[b].pc = "sweep"
    /\ sweep[b].i > Len(sse_clients)
    /\ sse_clients' = RemoveClients(sse_clients, sweep[b].dead)
    /\ sse_lock' = IF sse_lock = b THEN "free" ELSE sse_lock
    /\ sweep' = [sweep EXCEPT ![b].pc = "done"]
    /\ UNCHANGED <<writing, wire, broadcasts>>
    /\ UNCHANGED <<sse_pc, sse_status, chan_ok, written, sse_since>>
    /\ WireFrame

\* handle_sse: with sse_lock: sse_clients.append(self.wfile)
HandlerRegister(c) == sse_lock = "free" /\ SseRegister(c)

\* handle_sse: self.wfile.write(status_msg) or self.wfile.write(b": keepalive\n\n")
\* begins, outside every lock; on a broken channel it raises
HandlerWriteBegin(c) ==
    /\ sse_pc[c] \in {"initial", "keepalive"}
    /\ IF chan_ok[c]
       THEN /\ writing' = [writing EXCEPT ![c] = @ \cup {c}]
            /\ sse_pc' = [sse_pc EXCEPT ![c] =
                              IF @ = "initial" THEN "initial write" ELSE "keepalive write"]
            /\ wire' = [wire EXCEPT ![c] =
                            IF sse_pc[c] = "initial"
                            THEN Append(@, Piece(StatusMsg(sse_status[c]), "first", c))
                            ELSE @]
       ELSE /\ sse_pc' = [sse_pc EXCEPT ![c] = "finally"]
            /\ UNCHANGED <<writing, wire>>
    /\ UNCHANGED <<sse_lock, sweep>>
    /\ UNCHANGED <<sse_clients, sse_status, chan_ok, written, sse_since, broadcasts>>
    /\ WireFrame

\* the write and the flush return
HandlerWriteEnd(c) ==
    /\ sse_pc[c] \in {"initial write", "keepalive write"}
    /\ writing' = [writing EXCEPT ![c] = @ \ {c}]
    /\ sse_pc' = [sse_pc EXCEPT ![c] = "keepalive"]
    /\ IF sse_pc[c] = "initial write"
       THEN /\ wire' = [wire EXCEPT ![c] = Append(@, Piece(StatusMsg(sse_status[c]), "last", c))]
            /\ written' = [written EXCEPT ![c] = Append(@, StatusMsg(sse_status[c]))]
       ELSE UNCHANGED <<wire, written>>
    /\ UNCHANGED <<sse_lock, sweep>>
    /\ UNCHANGED <<sse_clients, sse_status, chan_ok, sse_since, broadcasts>>
    /\ WireFrame

\* handle_sse, finally: with sse_lock: remove the channel if it is registered
HandlerUnregister(c) == sse_lock = "free" /\ SseUnregister(c)

(* ------------------- /status and /recording-status -------------------- *)
\* handle_status without a device: with recording_lock: status = recording_state.copy();
\* the response is {"devices": status}
StatusAll ==
    /\ recording_lock = "free"
    /\ status_resp' = [path |-> "/status", body |-> recording_state]
    /\ UNCHANGED <<recording_state, recording_lock, rec_req, mutations>>
    /\ UNCHANGED <<kb, sseVars, devVars, queueVars, calcVars>>

\* handle_get_recording_status: with recording_lock: status = recording_state.copy();
\* the response is status
RecordingStatus ==
    /\ recording_lock = "free"
    /\ status_resp' = [path |-> "/recording-status", body |-> recording_state]
    /\ UNCHANGED <<recording_state, recording_lock, rec_req, mutations>>
    /\ UNCHANGED <<kb, sseVars, devVars, queueVars, calcVars>>

(* ------------------------- keyboard_listener --------------------------- *)
\* list(active_devices.keys())
DictKeys(ad) == [i \in 1..Len(ad) |-> ad[i].device_id]

\* any(recording_state.get(did, False) for did in device_ids)
AnyRecording(ids) == \E i \in 1..Len(ids) : GetRecording(ids[i])

NewState_all(ids) == ~(\E d \in DOMAIN recording_state : recording_state[d])
NewState_same(ids) == AnyRecording(ids)
\* new_state = not any_recording
NewState(ids) == ~AnyRecording(ids)

\* SPACE: with devices_lock: device_ids = list(active_devices.keys())
KbSnapshot ==
    /\ kb.pc = "idle"
    /\ kb' = [kb EXCEPT !.pc = "lock", !.device_ids = DictKeys(active_devices),
                        !.toggles = @ + 1]
    /\ UNCHANGED <<recVars, sseVars, devVars, queueVars, calcVars>>

\* with recording_lock: any_recording = ...; new_state = not any_recording
KbLock ==
    /\ kb.pc = "lock"
    /\ recording_lock = "free"
    /\ recording_lock' = "kb"
    /\ kb' = [kb EXCEPT !.pc = "loop", !.new_state = NewState(kb.device_ids), !.i = 1,
                        !.before = recording_state, !.sent = <<>>]
    /\ UNCHANGED <<recording_state, rec_req, status_resp, mutations>>
    /\ UNCHANGED <<sseVars, devVars, queueVars, calcVars>>

\* for device_id in device_ids: recording_state[device_id] = new_state;
\* broadcast_sse('device_status', ...).  recording_lock is held, so nothing
\* reads or writes recording_state between the write and the sweep: one step.
KbToggleDevice ==
    /\ kb.pc = "loop"
    /\ kb.i <= Len(kb.device_ids)
    /\ LET d == kb.device_ids[kb.i]
       IN  /\ recording_state' = DictSet(recording_state, d, kb.new_state)
           /\ mutations' = [mutations EXCEPT ![<<d, kb.new_state>>] = @ + 1]
           /\ broadcast_sse(DeviceStatusMsg(d, kb.new_state))
           /\ kb' = [kb EXCEPT !.i = @ + 1,
                               !.sent = Append(@, DeviceStatusMsg(d, kb.new_state))]
    /\ UNCHANGED <<recording_lock, rec_req, status_resp>>
    /\ UNCHANGED <<devVars, queueVars, calcVars>>

\* the "with recording_lock" block ends
KbRelease ==
    /\ kb.pc = "loop"
    /\ kb.i > Len(kb.device_ids)
    /\ recording_lock' = "free"
    /\ kb' = [kb EXCEPT !.pc = "idle", !.device_ids = <<>>, !.new_state = FALSE, !.i = 0,
                        !.before = EmptyDict, !.sent = <<>>]
    /\ UNCHANGED <<recording_state, rec_req, status_resp, mutations>>
    /\ UNCHANGED <<sseVars, devVars, queueVars, calcVars>>

(* -------------------------- device registry --------------------------- *)
Addrs == {"10.0.0.1", "10.0.0.2"}

\* the position of a key in the dict, 0 when it is absent
DictIndex(ad, d) ==
    IF \E i \in 1..Len(ad) : ad[i].device_id = d
    THEN CHOOSE i \in 1..Len(ad) : ad[i].device_id = d
    ELSE 0

\* active_devices[device_id] = {'last_seen': now, 'ip': client_ip}: an existing
\* key keeps its place, a new key goes last
Touch_alone(ad, d, t, ip) == <<[device_id |-> d, last_seen |-> t, ip |-> ip]>>
Touch(ad, d, t, ip) ==
    LET e == [device_id |-> d, last_seen |-> t, ip |-> ip]
    IN  IF DictIndex(ad, d) = 0 THEN Append(ad, e) ELSE [ad EXCEPT ![DictIndex(ad, d)] = e]

\* del active_devices[device_id]
DictDelete(ad, d) == SelectSeq(ad, LAMBDA e : e.device_id # d)

StatusTouch_setdefault(d, ip) ==
    /\ active_devices' = Touch(active_devices, d, now, ip)
    /\ touched' = touched \cup {d}
    /\ recording_state' = DictSet(recording_state, d, GetRecording(d))
    /\ UNCHANGED <<now, gd_req>>
    /\ UNCHANGED <<recording_lock, rec_req, status_resp, mutations>>
    /\ UNCHANGED <<kb, sseVars, queueVars, calcVars>>
\* handle_status with a device: the registry entry is written under devices_lock;
\* the read of recording_state that follows changes nothing
StatusTouch(d, ip) ==
    /\ active_devices' = Touch(active_devices, d, now, ip)
    /\ touched' = touched \cup {d}
    /\ UNCHANGED <<now, gd_req>>
    /\ UNCHANGED <<recVars, kb, sseVars, queueVars, calcVars>>

\* the clock advances
Tick(dt) ==
    /\ now' = now + dt
    /\ UNCHANGED <<active_devices, gd_req, touched>>
    /\ UNCHANGED <<recVars, kb, sseVars, queueVars, calcVars>>

\* handle_get_devices: now = datetime.datetime.now(), read before devices_lock
GetDevicesStart ==
    /\ gd_req.pc # "sweep"
    /\ gd_req' = [pc |-> "sweep", now |-> now, swept |-> 0, returned |-> 0, response |-> <<>>]
    /\ UNCHANGED <<active_devices, now, touched>>
    /\ UNCHANGED <<recVars, kb, sseVars, queueVars, calcVars>>

WithinTimeout_lax(seconds_since_seen) == seconds_since_seen <= DEVICE_TIMEOUT_SECONDS + 1
WithinTimeout_strict(seconds_since_seen) == seconds_since_seen < DEVICE_TIMEOUT_SECONDS
\* if seconds_since_seen <= DEVICE_TIMEOUT_SECONDS
WithinTimeout(seconds_since_seen) == seconds_since_seen <= DEVICE_TIMEOUT_SECONDS

\* for device_id, info in list(active_devices.items()): append the entry to the
\* response or delete it from the dict
RECURSIVE GetDevicesLoop(_, _, _)
GetDevicesLoop(items, t, acc) ==
    IF items = <<>> THEN acc
    ELSE LET info == Head(items)
             seconds_since_seen == t - info.last_seen
         IN  GetDevicesLoop(Tail(items), t,
                IF WithinTimeout(seconds_since_seen)
                THEN [acc EXCEPT !.devices = Append(@,
                         [device_id |-> info.device_id, ip |-> info.ip,
                          last_seen |-> info.last_seen,
                          seconds_ago |-> seconds_since_seen])]
                ELSE [acc EXCEPT !.registry = DictDelete(@, info.device_id)])

\* devices = []; the loop; what it leaves: the response list and the dict
GetDevices(ad, t) == GetDevicesLoop(ad, t, [devices |-> <<>>, registry |-> ad])

\* with devices_lock: the sweep; then the response json.dumps(devices)
GetDevicesSweep ==
    /\ gd_req.pc = "sweep"
    /\ LET out == GetDevices(active_devices, gd_req.now)
       IN  /\ active_devices' = out.registry
           /\ gd_req' = [gd_req EXCEPT !.pc = "done", !.swept = Len(active_devices),
                                       !.returned = Len(out.devices),
                                       !.response = DictKeys(out.devices)]
    /\ UNCHANGED <<now, touched>>
    /\ UNCHANGED <<recVars, kb, sseVars, queueVars, calcVars>>

(* ----------------------------- /audio --------------------------------- *)
\* 16-bit little-endian buffers
BodyEmpty == <<>>
BodyZero16 == <<0, 0, 0, 0>>
BodyBiasOdd16 == <<100, 0, 100, 0, 7>>

\* the text of a header value: an integer, a decimal number, an empty string,
\* or something that is no number
IntText(n) == [kind |-> "int", n |-> n]
DecimalText(n) == [kind |-> "decimal", n |-> n]
EmptyText == [kind |-> "empty", n |-> 0]
BadText == [kind |-> "bad", n |-> 0]

\* the X-Audio-* headers in the order handle_audio reads them, the key each is
\* stored under and the conversion applied
HintFields ==
    << [header |-> "X-Audio-AvgDb", key |-> "avg_db", conv |-> "float"],
       [header |-> "X-Audio-MaxDb", key |-> "max_db", conv |-> "float"],
       [header |-> "X-Audio-MinDb", key |-> "min_db", conv |-> "float"],
       [header |-> "X-Audio-ClipCount", key |-> "clip_count", conv |-> "int"],
       [header |-> "X-Audio-SilenceChunks", key |-> "silence_chunks", conv |-> "int"],
       [header |-> "X-Audio-I2SErrors", key |-> "i2s_errors", conv |-> "int"],
       [header |-> "X-Audio-TotalChunks", key |-> "total_chunks", conv |-> "int"] >>

\* float(text) and int(text) raise ValueError: float takes an integer or a
\* decimal number, int only an integer
ConvRaises(conv, text) ==
    text.kind = "bad" \/ (conv = "int" /\ text.kind = "decimal")

\* float(text), int(text)
Conv(conv, text) == IF conv = "float" THEN FloatVal("fin", text.n) ELSE Num(text.n)

\* the try block of handle_audio: a header that is absent or empty is skipped
\* ("if avg_db:"); the first ValueError ends the block, and audio_quality keeps
\* what was stored before
RECURSIVE ParseHints(_, _, _)
ParseHints(headers, i, audio_quality) ==
    IF i > Len(HintFields) THEN audio_quality
    ELSE LET f == HintFields[i]
         IN  IF f.header \notin DOMAIN headers \/ headers[f.header].kind = "empty"
             THEN ParseHints(headers, i + 1, audio_quality)
             ELSE IF ConvRaises(f.conv, headers[f.header])
             THEN audio_quality
             ELSE ParseHints(headers, i + 1,
                             DictSet(audio_quality, f.key, Conv(f.conv, headers[f.header])))

\* the uploads a device can send: query parameters, headers and body
Uploads ==
    { [device_id |-> "d1", bits_per_sample |-> 16, audio_data |-> BodyZero16,
       headers |-> EmptyDict],
      [device_id |-> "d2", bits_per_sample |-> 16, audio_data |-> BodyEmpty,
       headers |-> [h \in {"X-Audio-ClipCount"} |-> IntText(3)]],
      [device_id |-> "d2", bits_per_sample |-> 4,  audio_data |-> BodyZero16,
       headers |-> [h \in {"X-Audio-AvgDb", "X-Audio-ClipCount", "X-Audio-TotalChunks"} |->
                      IF h = "X-Audio-AvgDb" THEN DecimalText(0 - 20)
                      ELSE IF h = "X-Audio-ClipCount" THEN IntText(2) ELSE IntText(5)]],
      [device_id |-> "d1", bits_per_sample |-> 24, audio_data |-> BodyZero16,
       headers |-> [h \in {"X-Audio-MaxDb", "X-Audio-ClipCount", "X-Audio-I2SErrors"} |->
                      IF h = "X-Audio-MaxDb" THEN IntText(3)
                      ELSE IF h = "X-Audio-ClipCount" THEN DecimalText(2) ELSE IntText(1)]],
      [device_id |-> "d2", bits_per_sample |-> 16, audio_data |-> BodyBiasOdd16,
       headers |-> [h \in {"X-Audio-SilenceChunks", "X-Audio-I2SErrors"} |->
                      IF h = "X-Audio-SilenceChunks" THEN EmptyText ELSE IntText(1)]] }

\* the uploads of the runs that follow the worker: a well-formed one and one
\* whose bit depth has no whole byte
WorkerUploads == {u \in Uploads : u.audio_data = BodyZero16 /\ u.bits_per_sample \in {16, 4}}

Jobs == 1..MaxJobs

\* {"status": "success", "bytes_received": len(audio_data)}
AudioResponse(audio_data) == [status |-> "success", bytes_received |-> Len(audio_data)]

\* the response could not be written
NoResponse == [status |-> "", bytes_received |-> 0]

\* a request thread runs handle_audio up to its "Send immediate response":
\* parameters parsed, body read, response written.  ok: the write succeeds;
\* otherwise the peer is gone and the exception ends the handler.  These
\* statements touch no shared state, so they are one step.
AudioReceive_always(u, ok) ==
    /\ audio_req' = Append(audio_req,
            [pc |-> "enqueue", device_id |-> u.device_id,
             sample_rate |-> DEFAULT_SAMPLE_RATE, bits_per_sample |-> u.bits_per_sample,
             channels |-> DEFAULT_CHANNELS, audio_data |-> u.audio_data,
             headers |-> u.headers,
             audio_quality |-> ParseHints(u.headers, 1, EmptyDict),
             response |-> IF ok THEN AudioResponse(u.audio_data) ELSE NoResponse])
    /\ UNCHANGED <<transcription_queue, worker_pc, worker_item, enqueued, enqueued_while,
                   attempts, in_progress, finished>>
    /\ UNCHANGED <<recVars, kb, sseVars, devVars, calcVars>>
AudioReceive(u, ok) ==
    /\ audio_req' = Append(audio_req,
            [pc |-> IF ok THEN "enqueue" ELSE "failed", device_id |-> u.device_id,
             sample_rate |-> DEFAULT_SAMPLE_RATE, bits_per_sample |-> u.bits_per_sample,
             channels |-> DEFAULT_CHANNELS, audio_data |-> u.audio_data,
             headers |-> u.headers,
             audio_quality |-> ParseHints(u.headers, 1, EmptyDict),
             response |-> IF ok THEN AudioResponse(u.audio_data) ELSE NoResponse])
    /\ UNCHANGED <<transcription_queue, worker_pc, worker_item, enqueued, enqueued_while,
                   attempts, in_progress, finished>>
    /\ UNCHANGED <<recVars, kb, sseVars, devVars, calcVars>>

ShouldEnqueue_gated(r) == Len(r.audio_data) > 0 /\ GetRecording(r.device_id)
\* if len(audio_data) > 0
ShouldEnqueue(r) == Len(r.audio_data) > 0

QueueItem_nohints(j, r) ==
    [job |-> j, audio_data |-> r.audio_data, device_id |-> r.device_id,
     sample_rate |-> r.sample_rate, bits_per_sample |-> r.bits_per_sample,
     channels |-> r.channels, audio_quality |-> EmptyDict]
\* the dict appended to the queue (job: the number of the request, which the
\* histories use to name the item)
QueueItem(j, r) ==
    [job |-> j, audio_data |-> r.audio_data, device_id |-> r.device_id,
     sample_rate |-> r.sample_rate, bits_per_sample |-> r.bits_per_sample,
     channels |-> r.channels, audio_quality |-> r.audio_quality]

\* with transcription_queue_lock: transcription_queue.append({...})
AudioEnqueue(j) ==
    /\ j \in 1..Len(audio_req)
    /\ audio_req[j].pc = "enqueue"
    /\ audio_req' = [audio_req EXCEPT ![j].pc = "done"]
    /\ IF ShouldEnqueue(audio_req[j])
       THEN /\ transcription_queue' = Append(transcription_queue, QueueItem(j, audio_req[j]))
            /\ enqueued' = Append(enqueued, j)
            /\ enqueued_while' = Append(enqueued_while,
                    IF audio_req[j].device_id \in DOMAIN recording_state
                    THEN IF recording_state[audio_req[j].device_id] THEN "recording" ELSE "idle"
                    ELSE "unset")
       ELSE UNCHANGED <<transcription_queue, enqueued, enqueued_while>>
    /\ UNCHANGED <<worker_pc, worker_item, attempts, in_progress, finished>>
    /\ UNCHANGED <<recVars, kb, sseVars, devVars, calcVars>>

(* ------------------------ transcription_worker ------------------------ *)
Workers_two == {"worker", "worker2"}
\* main starts exactly one worker thread
Workers == {"worker"}

QueuePopItem_last(q) == q[Len(q)]
QueuePopRest_keep(q) == q
\* transcription_queue.pop(0): the item taken and the list left
QueuePopItem(q) == Head(q)
QueuePopRest(q) == Tail(q)

WorkerPop_newest(w) ==
    /\ worker_pc[w] = "loop"
    /\ IF transcription_queue # <<>>
       THEN /\ worker_item' = [worker_item EXCEPT ![w] = transcription_queue[Len(transcription_queue)]]
            /\ transcription_queue' = SubSeq(transcription_queue, 1, Len(transcription_queue) - 1)
            /\ worker_pc' = [worker_pc EXCEPT ![w] = "call"]
       ELSE /\ worker_pc' = [worker_pc EXCEPT ![w] = "sleep"]
            /\ UNCHANGED <<worker_item, transcription_queue>>
    /\ UNCHANGED <<audio_req, enqueued, enqueued_while, attempts, in_progress, finished>>
    /\ UNCHANGED <<recVars, kb, sseVars, devVars, calcVars>>
\* with transcription_queue_lock: if transcription_queue: item = pop(0);
\* an empty queue sends the worker to sleep(0.1)
WorkerPop(w) ==
    /\ worker_pc[w] = "loop"
    /\ IF transcription_queue # <<>>
       THEN /\ worker_item' = [worker_item EXCEPT ![w] = QueuePopItem(transcription_queue)]
            /\ transcription_queue' = QueuePopRest(transcription_queue)
            /\ worker_pc' = [worker_pc EXCEPT ![w] = "call"]
       ELSE /\ worker_pc' = [worker_pc EXCEPT ![w] = "sleep"]
            /\ UNCHANGED <<worker_item, transcription_queue>>
    /\ UNCHANGED <<audio_req, enqueued, enqueued_while, attempts, in_progress, finished>>
    /\ UNCHANGED <<recVars, kb, sseVars, devVars, calcVars>>

\* time.sleep(0.1); continue
WorkerWake(w) ==
    /\ worker_pc[w] = "sleep"
    /\ worker_pc' = [worker_pc EXCEPT ![w] = "loop"]
    /\ UNCHANGED <<transcription_queue, audio_req, worker_item, enqueued, enqueued_while,
                   attempts, in_progress, finished>>
    /\ UNCHANGED <<recVars, kb, sseVars, devVars, calcVars>>

\* duration = len / (sample_rate * channels * (bits_per_sample // 8)) raises
\* ZeroDivisionError
DurationRaises(item) ==
    item.sample_rate * item.channels * BytesPerSample(item.bits_per_sample) = 0

\* save_wav_file raises out of its DC correction (the analysis found an offset
\* above the threshold and remove_dc_offset cannot unpack the buffer)
SaveWavRaises(item) ==
    /\ ~AnalysisIsError(item.audio_data, item.bits_per_sample)
    /\ DcOffsetSignificant(item.audio_data, item.bits_per_sample)
    /\ RemoveDcRaises(item.audio_data, item.bits_per_sample)

\* process_recording_standalone is entered: duration, analysis, save_wav_file.
\* wavOk: the WAV file could be written (save_wav_file re-raises a write error).
\* Nothing in transcription_worker catches an exception: it ends the thread.
ProcessStart(w, wavOk) ==
    /\ worker_pc[w] = "call"
    /\ attempts' = Append(attempts, worker_item[w].job)
    /\ IF DurationRaises(worker_item[w]) \/ SaveWavRaises(worker_item[w]) \/ ~wavOk
       THEN /\ worker_pc' = [worker_pc EXCEPT ![w] = "dead"]
            /\ UNCHANGED in_progress
       ELSE /\ worker_pc' = [worker_pc EXCEPT ![w] = "transcribe"]
            /\ in_progress' = in_progress \cup {worker_item[w].job}
    /\ UNCHANGED <<transcription_queue, audio_req, worker_item, enqueued, enqueued_while,
                   finished>>
    /\ UNCHANGED <<recVars, kb, sseVars, devVars, calcVars>>

\* transcribe_audio_file returns text or None (timeout, non-zero exit, empty
\* output); with a transcript the text and metadata files are written (ioOk:
\* the writes succeed) and the transcript is broadcast; then the call returns
ProcessFinish(w, transcript, ioOk) ==
    /\ worker_pc[w] = "transcribe"
    /\ in_progress' = in_progress \ {worker_item[w].job}
    /\ IF transcript /\ ~ioOk
       THEN /\ worker_pc' = [worker_pc EXCEPT ![w] = "dead"]
            /\ UNCHANGED finished
       ELSE /\ worker_pc' = [worker_pc EXCEPT ![w] = "loop"]
            /\ finished' = Append(finished, worker_item[w].job)
    /\ IF transcript /\ ioOk
       THEN broadcast_sse(TranscriptMsg(worker_item[w]))
       ELSE UNCHANGED sseVars
    /\ UNCHANGED <<transcription_queue, audio_req, worker_item, enqueued, enqueued_while,
                   attempts>>
    /\ UNCHANGED <<recVars, kb, devVars, calcVars>>

(* -------------------- process_recording_standalone -------------------- *)
\* the uploads whose processing is followed statement by statement
JobSampleValues == {0 - 128, 0, 100}
JobSampleSeqs == UNION {[1..n -> JobSampleValues] : n \in 1..MaxSamples}
JobBuffers == {Pack(s, 8) : s \in JobSampleSeqs} \cup {BodyBiasOdd16}
JobHints == {EmptyDict, [k \in {"clip_count"} |-> Num(2)], [k \in {"clip_count"} |-> BigNum(0 - 1)]}
\* what the transcription engine does with the file
TranscribeOutcomes == {"text", "empty", "timeout", "exit"}

NoFile == [saved |-> FALSE]

JobCalls ==
    {[pc |-> "start", job |-> 1, device_id |-> "d1", audio_data |-> b, sample_rate |-> r,
      bits_per_sample |-> bits, channels |-> DEFAULT_CHANNELS, audio_quality |-> h,
      pcm_data |-> b, analysis |-> AnalysisError(""), before |-> AnalysisError(""),
      corrections |-> 0, wav |-> NoFile, transcript |-> "none", txt |-> NoFile,
      json |-> NoFile] :
        b \in JobBuffers, r \in SampleRates, bits \in BitDepths, h \in JobHints}

\* every action of the call leaves the rest of the server alone
JobFrame == UNCHANGED <<clean_call, score_call, dsp_call, engineVars, loadVars, lockVars, wireVars>> /\ UNCHANGED <<recVars, kb, devVars, queueVars>>

\* duration = len(audio_data) / (sample_rate * channels * (bits_per_sample // 8))
JobDuration ==
    /\ job.pc = "start"
    /\ job' = [job EXCEPT !.pc = IF DurationRaises(job) THEN "raised" ELSE "analyze"]
    /\ JobFrame /\ UNCHANGED sseVars

\* save_wav_file: analysis = analyze_audio_quality(pcm_data, ...)
SaveAnalyze ==
    /\ job.pc = "analyze"
    /\ LET a == analyze_audio_quality(job.pcm_data, job.sample_rate, job.bits_per_sample)
       IN  job' = [job EXCEPT !.pc = IF a.outcome = "raised" THEN "raised" ELSE "correct",
                              !.analysis = a, !.before = a]
    /\ JobFrame /\ UNCHANGED sseVars

\* dc_offset = analysis.get('dc_offset', 0) if 'error' not in analysis else 0
\* (in tenths, as dc_offset is kept)
DcOffsetOf(analysis) == IF analysis.outcome = "result" THEN analysis.dc_offset ELSE 0

NeedsDcRemoval_always(analysis) == analysis.outcome = "result"
\* if abs(dc_offset) > 10
NeedsDcRemoval(analysis) == Abs(DcOffsetOf(analysis)) > DC_REMOVAL_THRESHOLD * 10

\* analysis.update(analysis_after)
DictUpdate(f, g) == [k \in DOMAIN f \cup DOMAIN g |-> IF k \in DOMAIN g THEN g[k] ELSE f[k]]

\* analysis['dc_offset_removed'] = True; analysis['dc_offset_original'] = ...;
\* analysis.update(analysis_after)
Reanalyzed(analysis, after) ==
    DictUpdate(DictSet(DictSet(analysis, "dc_offset_removed", TRUE),
                       "dc_offset_original", analysis.dc_offset),
               after)

\* save_wav_file: the block "if abs(dc_offset) > 10": the buffer is corrected
\* (remove_dc_offset may raise) and analysed again
SaveCorrect ==
    /\ job.pc = "correct"
    /\ IF ~NeedsDcRemoval(job.analysis)
       THEN job' = [job EXCEPT !.pc = "write"]
       ELSE IF RemoveDcRaises(job.pcm_data, job.bits_per_sample)
       THEN job' = [job EXCEPT !.pc = "raised", !.corrections = @ + 1]
       ELSE LET corrected == remove_dc_offset(job.pcm_data, job.bits_per_sample)
                after == analyze_audio_quality(corrected, job.sample_rate, job.bits_per_sample)
            IN  job' = [job EXCEPT !.pc = "write", !.corrections = @ + 1,
                                   !.pcm_data = corrected,
                                   !.analysis = IF after.outcome = "result"
                                                THEN Reanalyzed(job.analysis, after)
                                                ELSE job.analysis]
    /\ JobFrame /\ UNCHANGED sseVars

\* save_wav_file: wav_file.writeframes(pcm_data); return analysis (wavOk: the
\* file could be written; otherwise the exception is raised again)
SaveWrite(wavOk) ==
    /\ job.pc = "write"
    /\ IF wavOk
       THEN job' = [job EXCEPT !.pc = "annotate", !.wav = [saved |-> TRUE, data |-> job.pcm_data]]
       ELSE job' = [job EXCEPT !.pc = "raised"]
    /\ JobFrame /\ UNCHANGED sseVars

\* audio_quality['server_analysis'] = {...}: issues is kept by its length
ServerAnalysis(analysis) ==
    [data_integrity |-> analysis.data_integrity, issues |-> Len(analysis.issues),
     zero_percentage |-> analysis.zero_percentage]

\* if audio_analysis and 'error' not in audio_analysis: add the server analysis
JobAnnotate ==
    /\ job.pc = "annotate"
    /\ job' = [job EXCEPT !.pc = "transcribe",
                  !.audio_quality = IF job.analysis.outcome = "result"
                                    THEN DictSet(job.audio_quality, "server_analysis",
                                                 ServerAnalysis(job.analysis))
                                    ELSE job.audio_quality]
    /\ JobFrame /\ UNCHANGED sseVars

\* transcript = transcribe_audio_file(wav_path): text, '' or None
JobTranscribe(outcome) ==
    /\ job.pc = "transcribe"
    /\ job' = [job EXCEPT !.pc = "persist", !.transcript = outcome]
    /\ JobFrame /\ UNCHANGED sseVars

\* if transcript: the text file is written, the score computed (a subtraction
\* may raise) and the metadata written; else: "Transcription failed"
JobPersist ==
    /\ job.pc = "persist"
    /\ IF job.transcript # "text"
       THEN job' = [job EXCEPT !.pc = "done"]
       ELSE IF QualityScore(job.audio_quality).outcome = "raised"
       THEN job' = [job EXCEPT !.pc = "raised", !.txt = [saved |-> TRUE]]
       ELSE job' = [job EXCEPT !.pc = "broadcast", !.txt = [saved |-> TRUE],
                               !.json = [saved |-> TRUE,
                                         audio_quality |-> job.audio_quality,
                                         quality_score |-> QualityScore(job.audio_quality)]]
    /\ JobFrame /\ UNCHANGED sseVars

\* broadcast_sse('transcript', broadcast_data)
JobBroadcast ==
    /\ job.pc = "broadcast"
    /\ job' = [job EXCEPT !.pc = "done"]
    /\ broadcast_sse(TranscriptMsg(job))
    /\ JobFrame

(* ------------- get_faster_whisper_model, get_openai_whisper_model ------ *)
\* the libraries with a lazily loaded model, each with its own global
Libraries == {"faster-whisper", "openai-whisper"}
\* threads that call an accessor
Callers == {"t1", "t2"}
\* whisper_model_faster = None
None == 0

LockAvailable_always(lock) == TRUE
\* with whisper_model_lock: the block is entered when no thread holds the lock
LockAvailable(lock) == lock = "free"

\* the instances so far, over both libraries (a new instance is a new number)
Instances == constructed["faster-whisper"] + constructed["openai-whisper"]

LoadFrame ==
    /\ UNCHANGED <<clean_call, score_call, dsp_call, job, engineVars, lockVars, wireVars>>
    /\ UNCHANGED <<recVars, kb, sseVars, devVars, queueVars>>

\* the call ends: the lock is released and the value handed to the caller
Return(t, value, model) ==
    /\ whisper_model_lock' = "free"
    /\ loader' = [loader EXCEPT ![t] = [pc |-> "idle", library |-> "", calls |-> @.calls + 1]]
    /\ model_returns' = model_returns \cup {[library |-> loader[t].library, value |-> value,
                                   model |-> model]}

\* get_..._model(): with whisper_model_lock
GetModelLock(t, k) ==
    /\ loader[t].pc = "idle"
    /\ LockAvailable(whisper_model_lock)
    /\ whisper_model_lock' = t
    /\ loader' = [loader EXCEPT ![t].pc = "check", ![t].library = k]
    /\ UNCHANGED <<whisper_model, constructed, model_returns>>
    /\ LoadFrame

\* if whisper_model is None is false: return whisper_model
GetModelCached(t) ==
    /\ loader[t].pc = "check"
    /\ whisper_model[loader[t].library] # None
    /\ Return(t, whisper_model[loader[t].library], whisper_model[loader[t].library])
    /\ UNCHANGED <<whisper_model, constructed>>
    /\ LoadFrame

\* a model is constructed and stored in the global
Construct(k) ==
    /\ whisper_model' = [whisper_model EXCEPT ![k] = Instances + 1]
    /\ constructed' = [constructed EXCEPT ![k] = @ + 1]

\* if whisper_model is None: try: whisper_model = <medium.en model>
\* (ok: the load succeeds), then return whisper_model
GetModelPrimary(t, ok) ==
    /\ loader[t].pc = "check"
    /\ whisper_model[loader[t].library] = None
    /\ IF ok
       THEN /\ Construct(loader[t].library)
            /\ Return(t, Instances + 1, Instances + 1)
       ELSE /\ loader' = [loader EXCEPT ![t].pc = "fallback"]
            /\ UNCHANGED <<whisper_model, whisper_model_lock, constructed, model_returns>>
    /\ LoadFrame

\* except: try: whisper_model = <small.en model>; except: return None
GetModelFallback(t, ok) ==
    /\ loader[t].pc = "fallback"
    /\ IF ok
       THEN /\ Construct(loader[t].library)
            /\ Return(t, Instances + 1, Instances + 1)
       ELSE /\ Return(t, None, whisper_model[loader[t].library])
            /\ UNCHANGED <<whisper_model, constructed>>
    /\ LoadFrame

(* --------------------------- the five locks ---------------------------- *)
Locks == {"recording_lock", "sse_lock", "devices_lock", "transcription_queue_lock",
          "whisper_model_lock"}

Acquire(l) == [op |-> "acquire", lock |-> l]
Release(l) == [op |-> "release", lock |-> l]
\* with l: a block that takes no other lock
With(l) == <<Acquire(l), Release(l)>>

\* broadcast_sse: with sse_lock
BroadcastLocks == With("sse_lock")

\* handle_status with a device: with devices_lock, then with recording_lock
StatusLocks == With("devices_lock") \o With("recording_lock")

\* handle_get_devices: with devices_lock
DevicesLocks == With("devices_lock")

\* handle_start_recording, handle_stop_recording: with recording_lock, then
\* broadcast_sse
RecordLocks == With("recording_lock") \o BroadcastLocks

EventsLocks_nested ==
    <<Acquire("sse_lock"), Acquire("recording_lock"), Release("recording_lock"),
      Release("sse_lock")>> \o With("sse_lock")
\* handle_sse: with sse_lock (register), with recording_lock (snapshot),
\* with sse_lock (unregister)
EventsLocks == With("sse_lock") \o With("recording_lock") \o With("sse_lock")

\* handle_audio: with transcription_queue_lock
AudioLocks == With("transcription_queue_lock")

\* transcription_worker: with transcription_queue_lock; the model accessor's
\* with whisper_model_lock; broadcast_sse of the transcript
WorkerLocks == With("transcription_queue_lock") \o With("whisper_model_lock") \o BroadcastLocks

\* keyboard_listener: with devices_lock; with recording_lock around the loop
\* that calls broadcast_sse for each device (two of them)
KeyboardLocks ==
    With("devices_lock") \o <<Acquire("recording_lock")>> \o BroadcastLocks \o BroadcastLocks
        \o <<Release("recording_lock")>>

\* the threads of the server, each running its handler or loop again and again
Threads == {"status", "devices", "record", "events", "audio", "worker", "keyboard"}

LockProgram(t) ==
    CASE t = "status" -> StatusLocks
      [] t = "devices" -> DevicesLocks
      [] t = "record" -> RecordLocks
      [] t = "events" -> EventsLocks
      [] t = "audio" -> AudioLocks
      [] t = "worker" -> WorkerLocks
      [] t = "keyboard" -> KeyboardLocks

\* the lock operation the thread is at
NextOp(t) == LockProgram(t)[lock_pc[t]]

LockFrame ==
    /\ UNCHANGED <<clean_call, score_call, dsp_call, job, engineVars, loadVars, wireVars>>
    /\ UNCHANGED <<recVars, kb, sseVars, devVars, queueVars>>

\* after its last operation the thread starts over
Advance(t) ==
    lock_pc' = [lock_pc EXCEPT ![t] = IF @ = Len(LockProgram(t)) THEN 1 ELSE @ + 1]

\* threading.Lock.acquire: blocks while the lock is held, by whomever
LockAcquire(t) ==
    /\ NextOp(t).op = "acquire"
    /\ lock_holder[NextOp(t).lock] = "free"
    /\ lock_holder' = [lock_holder EXCEPT ![NextOp(t).lock] = t]
    /\ Advance(t)
    /\ LockFrame

\* the end of the with block
LockRelease(t) ==
    /\ NextOp(t).op = "release"
    /\ lock_holder' = [lock_holder EXCEPT ![NextOp(t).lock] = "free"]
    /\ Advance(t)
    /\ LockFrame

(* ------------------------ transcribe_audio_file ------------------------ *)
\* os.path.getsize(wav_path): the WAV header and the frames
WavFileSize(item) == 44 + Len(item.audio_data)

\* no timeout is passed to the call
NoTimeout == 0

\* transcribe_audio_file: timeout = max(30, int(file_size_mb * 10)) for
\* whisper-cpp (subprocess.run(..., timeout=timeout)); model.transcribe of the
\* two libraries is called without one
TimeoutFor(method, item) ==
    IF method = "whisper-cpp"
    THEN LET scaled == (WavFileSize(item) * 10) \div (1024 * 1024)
         IN  IF scaled > 30 THEN scaled ELSE 30
    ELSE NoTimeout

\* the worker enters the engine: subprocess.run or model.transcribe.  returns:
\* the engine comes back on its own
EngineCall(w, returns) ==
    /\ worker_pc[w] = "transcribe"
    /\ engine_calls[worker_item[w].job].pc = "none"
    /\ engine_calls' = [engine_calls EXCEPT ![worker_item[w].job] =
            [pc |-> "running", timeout |-> TimeoutFor(whisper_method, worker_item[w]),
             returns |-> returns]]
    /\ UNCHANGED <<clean_call, score_call, dsp_call, job, whisper_method, loadVars, lockVars, wireVars>>
    /\ UNCHANGED <<recVars, kb, sseVars, devVars, queueVars>>

\* the engine comes back: result.returncode and the output file, or the segments
EngineReturn(w) ==
    /\ worker_pc[w] = "transcribe"
    /\ engine_calls[worker_item[w].job].pc = "running"
    /\ engine_calls[worker_item[w].job].returns
    /\ engine_calls' = [engine_calls EXCEPT ![worker_item[w].job].pc = "returned"]
    /\ UNCHANGED <<clean_call, score_call, dsp_call, job, whisper_method, loadVars, lockVars, wireVars>>
    /\ UNCHANGED <<recVars, kb, sseVars, devVars, queueVars>>

\* except subprocess.TimeoutExpired: return None
EngineTimeout(w) ==
    /\ worker_pc[w] = "transcribe"
    /\ engine_calls[worker_item[w].job].pc = "running"
    /\ engine_calls[worker_item[w].job].timeout # NoTimeout
    /\ engine_calls' = [engine_calls EXCEPT ![worker_item[w].job].pc = "timeout"]
    /\ UNCHANGED <<clean_call, score_call, dsp_call, job, whisper_method, loadVars, lockVars, wireVars>>
    /\ UNCHANGED <<recVars, kb, sseVars, devVars, queueVars>>

\* the rest of process_recording_standalone once the engine call has ended;
\* after a timeout there is no transcript
ProcessAfterEngine(w, transcript, ioOk) ==
    /\ worker_pc[w] = "transcribe"
    /\ engine_calls[worker_item[w].job].pc \in {"returned", "timeout"}
    /\ engine_calls[worker_item[w].job].pc = "timeout" => ~transcript
    /\ ProcessFinish(w, transcript, ioOk)

(* --------------------------- specifications --------------------------- *)
\* the module globals before any request
InitServer ==
    /\ recording_state = EmptyDict
    /\ recording_lock = "free"
    /\ rec_req = <<>>
    /\ status_resp = [path |-> "", body |-> EmptyDict]
    /\ mutations = [w \in Devices \X BOOLEAN |-> 0]
    /\ kb = [pc |-> "idle", device_ids |-> <<>>, new_state |-> FALSE, i |-> 0,
             before |-> EmptyDict, sent |-> <<>>, toggles |-> 0]
    /\ sse_clients = <<>>
    /\ sse_pc = [c \in Channels |-> "new"]
    /\ sse_status = [c \in Channels |-> EmptyDict]
    /\ chan_ok = [c \in Channels |-> TRUE]
    /\ written = [c \in Channels |-> <<>>]
    /\ sse_since = [c \in Channels |-> 0]
    /\ broadcasts = <<>>
    /\ active_devices = <<>>
    /\ now = 0
    /\ gd_req = [pc |-> "idle", now |-> 0, swept |-> 0, returned |-> 0, response |-> <<>>]
    /\ touched = {}
    /\ transcription_queue = <<>>
    /\ audio_req = <<>>
    /\ worker_pc = [w \in Workers |-> "loop"]
    /\ worker_item = [w \in Workers |-> NoItem]
    /\ enqueued = <<>>
    /\ enqueued_while = <<>>
    /\ attempts = <<>>
    /\ in_progress = {}
    /\ finished = <<>>

NoCall == [pc |-> "idle"]

\* the engines detect_whisper_method can find (main returns when it finds none)
Engines == {"whisper-cpp", "faster-whisper", "openai-whisper"}

\* no engine call has begun
NoEngineCalls == [j \in Jobs |-> [pc |-> "none", timeout |-> 0, returns |-> FALSE]]

\* the variables of the calls that a run does not follow, except those named
CallsIdle(except) ==
    /\ IF "clean_call" \in except THEN TRUE ELSE clean_call = NoCall
    /\ IF "score_call" \in except THEN TRUE ELSE score_call = NoCall
    /\ IF "dsp_call" \in except THEN TRUE ELSE dsp_call = NoCall
    /\ IF "job" \in except THEN TRUE ELSE job = NoCall
    /\ IF "whisper_method" \in except THEN TRUE ELSE whisper_method = "whisper-cpp"
    /\ engine_calls = NoEngineCalls
    /\ whisper_model = [k \in Libraries |-> None]
    /\ whisper_model_lock = "free"
    /\ loader = [t \in Callers |-> [pc |-> "idle", library |-> "", calls |-> 0]]
    /\ constructed = [k \in Libraries |-> 0]
    /\ model_returns = {}
    /\ lock_holder = [l \in Locks |-> "free"]
    /\ lock_pc = [t \in Threads |-> 1]
    /\ sse_lock = "free"
    /\ sweep = [b \in Broadcasters |-> NoSweep]
    /\ writing = [c \in Channels |-> {}]
    /\ wire = [c \in Channels |-> <<>>]

Init == InitServer /\ CallsIdle({})

WorkerStep(w) ==
    \/ WorkerPop(w)
    \/ WorkerWake(w)
    \/ \E wavOk \in BOOLEAN : ProcessStart(w, wavOk)
    \/ \E transcript \in BOOLEAN, ioOk \in BOOLEAN : ProcessFinish(w, transcript, ioOk)

\* uploads arrive concurrently with the worker draining the queue
NextWorker ==
    \/ Len(audio_req) < MaxJobs /\ \E u \in WorkerUploads, ok \in BOOLEAN : AudioReceive(u, ok)
    \/ \E j \in Jobs : AudioEnqueue(j)
    \/ \E w \in Workers : WorkerStep(w)

SpecWorker == Init /\ [][NextWorker]_vars

\* the same with every kind of upload, the malformed ones included
NextFaults ==
    \/ Len(audio_req) < MaxJobs /\ \E u \in Uploads, ok \in BOOLEAN : AudioReceive(u, ok)
    \/ \E j \in Jobs : AudioEnqueue(j)
    \/ \E w \in Workers : WorkerStep(w)

SpecFaults == Init /\ [][NextFaults]_vars

\* uploads arrive while start and stop requests change the recording state
NextIngest ==
    \/ /\ Len(audio_req) + Len(rec_req) < MaxIngestReq
       /\ \E u \in Uploads, ok \in BOOLEAN : AudioReceive(u, ok)
    \/ \E j \in 1..Len(audio_req) : AudioEnqueue(j)
    \/ /\ Len(audio_req) + Len(rec_req) < MaxIngestReq
       /\ \E op \in {"start", "stop"}, d \in Devices : RecordWrite(op, d)
    \/ \E r \in 1..Len(rec_req) : RecordBroadcast(r)

SpecIngest == Init /\ [][NextIngest]_vars

\* the observer of the runs that follow the recording state
Observers == {"c1"}

SseStep(c) ==
    \/ SseRegister(c)
    \/ SseSnapshot(c)
    \/ SseInitial(c)
    \/ SseKeepalive(c)
    \/ SseUnregister(c)
    \/ ChannelBreak(c)

\* the start, stop and bulk-toggle operations issued so far
RecOps == Len(rec_req) + kb.toggles

\* start and stop requests arrive, with and without a device parameter, while
\* an observer connects, listens and goes away
NextRec ==
    \/ RecOps < MaxRecOps /\ \E op \in {"start", "stop"} : RecordBadRequest(op)
    \/ RecOps < MaxRecOps /\ \E op \in {"start", "stop"}, d \in Devices : RecordWrite(op, d)
    \/ \E r \in 1..Len(rec_req) : RecordBroadcast(r)
    \/ \E c \in Observers : SseStep(c)

SpecRec == Init /\ [][NextRec]_vars

\* an observer whose connection stays up
SseListen(c) ==
    \/ SseRegister(c)
    \/ SseSnapshot(c)
    \/ SseInitial(c)
    \/ SseKeepalive(c)

\* devices register through /status, start and stop requests arrive, the SPACE
\* key toggles all registered devices, and an observer listens
NextToggle ==
    \/ \E d \in Devices : StatusTouch(d, "10.0.0.1")
    \/ RecOps < MaxRecOps /\ \E op \in {"start", "stop"}, d \in Devices : RecordWrite(op, d)
    \/ \E r \in 1..Len(rec_req) : RecordBroadcast(r)
    \/ RecOps < MaxRecOps /\ KbSnapshot
    \/ KbLock
    \/ KbToggleDevice
    \/ KbRelease
    \/ \E c \in Observers : SseListen(c)

SpecToggle == Init /\ [][NextToggle]_vars

\* seconds by which the clock advances in one step
TickSteps == {1, DEVICE_TIMEOUT_SECONDS}

\* devices poll /status while time passes and /devices is read
NextDev ==
    \/ \E d \in Devices, ip \in Addrs : StatusTouch(d, ip)
    \/ \E dt \in TickSteps : now + dt <= MaxTime /\ Tick(dt)
    \/ GetDevicesStart
    \/ GetDevicesSweep

SpecDev == Init /\ [][NextDev]_vars

\* devices poll /status while time passes and /devices, /status without a
\* device and /recording-status are read
NextQuery ==
    \/ \E d \in Devices : StatusTouch(d, "10.0.0.1")
    \/ \E dt \in TickSteps : now + dt <= MaxTime /\ Tick(dt)
    \/ GetDevicesStart
    \/ GetDevicesSweep
    \/ StatusAll
    \/ RecordingStatus

SpecQuery == Init /\ [][NextQuery]_vars

\* device d1 is started and stopped while two observers connect, listen and
\* go away
NextFanout ==
    \/ RecOps < MaxRecOps /\ \E op \in {"start", "stop"} : RecordWrite(op, "d1")
    \/ \E r \in 1..Len(rec_req) : RecordBroadcast(r)
    \/ \E c \in Channels : SseStep(c)

SpecFanout == Init /\ [][NextFanout]_vars

\* start and stop requests arrive while device d2 polls /status and the
\* recording state is read through /status, /recording-status and /events
NextFrame ==
    \/ RecOps < MaxRecOps /\ \E op \in {"start", "stop"}, d \in Devices : RecordWrite(op, d)
    \/ \E r \in 1..Len(rec_req) : RecordBroadcast(r)
    \/ StatusTouch("d2", "10.0.0.1")
    \/ StatusAll
    \/ RecordingStatus
    \/ \E c \in Observers : SseListen(c)

SpecFrame == Init /\ [][NextFrame]_vars

\* uploads arrive and the worker drains the queue while an observer connects
\* and listens until its connection breaks
NextTranscripts ==
    \/ Len(audio_req) < MaxJobs /\ \E u \in WorkerUploads, ok \in BOOLEAN : AudioReceive(u, ok)
    \/ \E j \in Jobs : AudioEnqueue(j)
    \/ \E w \in Workers : WorkerStep(w)
    \/ \E c \in Observers : SseListen(c) \/ ChannelBreak(c)

SpecTranscripts == Init /\ [][NextTranscripts]_vars

\* a start and a stop handler broadcast while two observers connect and
\* listen; the connection of one of them breaks
NextWire ==
    \/ \E b \in Broadcasters :
          SweepStart(b) \/ SweepWriteBegin(b) \/ SweepWriteEnd(b) \/ SweepRemove(b)
    \/ \E c \in Channels :
          \/ HandlerRegister(c)
          \/ SseSnapshot(c)
          \/ HandlerWriteBegin(c)
          \/ HandlerWriteEnd(c)
          \/ HandlerUnregister(c)
    \/ ChannelBreak("c2")

SpecWire == Init /\ [][NextWire]_vars

\* clean_json_data is called on a value and again on its result
InitClean ==
    /\ InitServer
    /\ clean_call \in {[pc |-> "call", data |-> x, once |-> PyNone, twice |-> PyNone] :
                          x \in CleanInputs}
    /\ CallsIdle({"clean_call"})

NextClean == CleanOnce \/ CleanAgain

SpecClean == InitClean /\ [][NextClean]_vars

\* the quality score is computed for one audio_quality dict
InitScore ==
    /\ InitServer
    /\ CallsIdle({"score_call"})
    /\ score_call \in {[pc |-> "call", audio_quality |-> aq,
                          result |-> [outcome |-> "none", score |-> 0]] :
                          aq \in AudioQualities}

NextScore == ComputeScore

SpecScore == InitScore /\ [][NextScore]_vars

\* uploads are processed by the worker with the engine main found
InitEngine ==
    /\ InitServer
    /\ CallsIdle({"whisper_method"})
    /\ whisper_method \in Engines

NextEngine ==
    \/ Len(audio_req) < MaxJobs /\ \E u \in WorkerUploads : AudioReceive(u, TRUE)
    \/ \E j \in Jobs : AudioEnqueue(j)
    \/ \E w \in Workers :
          \/ WorkerPop(w)
          \/ WorkerWake(w)
          \/ ProcessStart(w, TRUE)
          \/ \E returns \in BOOLEAN : EngineCall(w, returns)
          \/ EngineReturn(w)
          \/ EngineTimeout(w)
          \/ \E transcript \in BOOLEAN : ProcessAfterEngine(w, transcript, TRUE)

SpecEngine == InitEngine /\ [][NextEngine]_vars

\* threads call the two accessors concurrently
NextLoad ==
    \E t \in Callers :
        \/ loader[t].calls < MaxCalls /\ \E k \in Libraries : GetModelLock(t, k)
        \/ GetModelCached(t)
        \/ \E ok \in BOOLEAN : GetModelPrimary(t, ok)
        \/ \E ok \in BOOLEAN : GetModelFallback(t, ok)

SpecLoad == Init /\ [][NextLoad]_vars

\* the threads take and release the locks in the order their code does
NextLocks == \E t \in Threads : LockAcquire(t) \/ LockRelease(t)

SpecLocks == Init /\ [][NextLocks]_vars

\* one upload is processed, observed by one channel
InitJob ==
    /\ InitServer
    /\ CallsIdle({"job"})
    /\ job \in JobCalls

NextJob ==
    \/ JobDuration
    \/ SaveAnalyze
    \/ SaveCorrect
    \/ \E wavOk \in BOOLEAN : SaveWrite(wavOk)
    \/ JobAnnotate
    \/ \E outcome \in TranscribeOutcomes : JobTranscribe(outcome)
    \/ JobPersist
    \/ JobBroadcast
    \/ \E c \in Observers : SseRegister(c)

SpecJob == InitJob /\ [][NextJob]_vars

\* one buffer is analysed, corrected and corrected again
InitAnalyze ==
    /\ InitServer
    /\ CallsIdle({"dsp_call"})
    /\ dsp_call \in DspCalls

NextAnalyze == AnalyzeCall \/ CorrectOnce \/ CorrectAgain

SpecAnalyze == InitAnalyze /\ [][NextAnalyze]_vars

\* the keyboard thread is the only caller of broadcast_sse: devices register,
\* the SPACE key toggles them, and an observer connects, listens and goes away
NextBulk ==
    \/ \E d \in Devices : StatusTouch(d, "10.0.0.1")
    \/ RecOps < MaxRecOps /\ KbSnapshot
    \/ KbLock
    \/ KbToggleDevice
    \/ KbRelease
    \/ \E c \in Observers : SseStep(c)

SpecBulk == Init /\ [][NextBulk]_vars

\* devices poll /status and are started and stopped, time passes without any
\* /devices request, and the SPACE key toggles the registered devices (the
\* clock stands still while a toggle runs)
NextStale ==
    \/ \E d \in Devices : StatusTouch(d, "10.0.0.1")
    \/ \E dt \in TickSteps : now + dt <= MaxTime /\ kb.pc = "idle" /\ Tick(dt)
    \/ RecOps < MaxRecOps /\ \E op \in {"start", "stop"}, d \in Devices : RecordWrite(op, d)
    \/ \E r \in 1..Len(rec_req) : RecordBroadcast(r)
    \/ RecOps < MaxRecOps /\ KbSnapshot
    \/ KbLock
    \/ KbToggleDevice
    \/ KbRelease

SpecStale == Init /\ [][NextStale]_vars

\* the worker thread is scheduled again and again, and a processing call that
\* is running ends (transcribe_audio_file returns)
FairSpecWorker == SpecWorker /\ \A w \in Workers : WF_vars(WorkerStep(w))

(* ------------------------------- claims -------------------------------- *)
InQueue(j) == \E i \in 1..Len(transcription_queue) : transcription_queue[i].job = j

NoDuplicates(s) == \A i, k \in 1..Len(s) : s[i] = s[k] => i = k

WorkerAlive == \A w \in Workers : worker_pc[w] # "dead"

\* C1: in every reachable state at most one process_recording_standalone call
\* is in progress, however many /audio requests are in flight
C1_AtMostOneInProgress == Cardinality(in_progress) <= 1

C1_Witness ==
    /\ Cardinality(in_progress) = 1
    /\ transcription_queue # <<>>
    /\ \E j \in 1..Len(audio_req) : audio_req[j].pc = "enqueue"

\* C2: the processing attempts started so far are, in order, a prefix of the
\* jobs appended to the queue
C2_AttemptsPrefixOfEnqueued == IsPrefix(attempts, enqueued)

C2_Witness == Len(attempts) >= 2 /\ Len(transcription_queue) >= 1

\* C3: no job is attempted twice, an attempted job is no longer queued, and,
\* when no processing call ends in an exception, every queued job is eventually
\* processed and gone from the queue
C3_ProcessedExactlyOnce ==
    /\ [](NoDuplicates(attempts) /\ \A i \in 1..Len(attempts) : ~InQueue(attempts[i]))
    /\ ([]WorkerAlive) =>
          \A j \in Jobs : InQueue(j) ~> (j \in Range(finished) /\ ~InQueue(j))

C3_Witness == Len(finished) >= 2 /\ transcription_queue = <<>>

\* C4: a failure while processing one job leaves the worker running
C4_WorkerSurvivesJobFailure == WorkerAlive

\* C5: every upload with a non-empty body whose handler ran to its end is in
\* the queue history, whatever the recording state of its device was
C5_EnqueuedWhateverRecordingState ==
    \A j \in 1..Len(audio_req) :
        (audio_req[j].pc = "done" /\ Len(audio_req[j].audio_data) > 0)
            => j \in Range(enqueued)

\* one upload was enqueued while its device was Recording, another while its
\* device had no recording state
C5_Witness ==
    /\ "recording" \in Range(enqueued_while)
    /\ "unset" \in Range(enqueued_while)
    /\ \A j \in 1..Len(audio_req) : audio_req[j].pc = "done"

\* C6: the write of a start request leaves its device Recording and the write
\* of a stop request leaves it Idle, whatever the device's state was before
C6_StartStopSetState ==
    [][Len(rec_req') > Len(rec_req) =>
         LET q == rec_req'[Len(rec_req')]
         IN  q.code # 400 =>
                /\ q.device_id \in DOMAIN recording_state'
                /\ q.op = "start" => recording_state'[q.device_id] = TRUE
                /\ q.op = "stop" => recording_state'[q.device_id] = FALSE]_vars

\* start(d1) after start(d1): d1 is still Recording
C6_Witness ==
    /\ Len(rec_req) = 2
    /\ \A r \in 1..2 : rec_req[r].op = "start" /\ rec_req[r].device_id = "d1"
    /\ recording_state["d1"] = TRUE

CountWrites(d, v) == mutations[<<d, v>>]

IsDeviceStatus(m, d, v) ==
    m.event = "device_status" /\ m.data.device_id = d /\ m.data.recording = v

CountDeviceStatus(msgs, d, v) ==
    Cardinality({i \in 1..Len(msgs) : IsDeviceStatus(msgs[i], d, v)})

\* start/stop handlers that wrote the state and have not broadcast yet
PendingBroadcasts(d, v) ==
    Cardinality({r \in 1..Len(rec_req) :
                    /\ rec_req[r].pc = "broadcast"
                    /\ rec_req[r].device_id = d
                    /\ (rec_req[r].op = "start") = v})

\* the events a channel was sent by broadcast_sse (not its own initial status)
Events(w) == SelectSeq(w, LAMBDA m : m.event # "status")

\* C7: each write of (device, value) to recording_state has exactly one
\* device_status broadcast of that device and value (issued, or about to be
\* issued by the handler that wrote), repeated values included, and a channel
\* that is registered and working was sent every broadcast since it registered
C7_OneBroadcastPerMutation ==
    /\ \A d \in Devices, v \in BOOLEAN :
          CountWrites(d, v) = CountDeviceStatus(broadcasts, d, v) + PendingBroadcasts(d, v)
    /\ \A c \in Channels :
          (c \in Range(sse_clients) /\ chan_ok[c]) =>
              Events(written[c]) = SubSeq(broadcasts, sse_since[c] + 1, Len(broadcasts))

\* start(d1) twice: the observer was sent two {d1, recording: true} events
C7_Witness ==
    /\ Len(rec_req) = 2
    /\ \A r \in 1..2 : rec_req[r].op = "start" /\ rec_req[r].device_id = "d1"
    /\ \E c \in Channels : CountDeviceStatus(written[c], "d1", TRUE) = 2

\* the bulk toggle has written its last device and still holds recording_lock
ToggleDone == kb.pc = "loop" /\ kb.i > Len(kb.device_ids)

\* recording state of d when the toggle took recording_lock
WasRecording(d) == d \in DOMAIN kb.before /\ kb.before[d]

\* C8: at the end of a bulk toggle over the registry snapshot, new_state is the
\* negation of the OR of the snapshot devices' states, every snapshot device
\* has it, one device_status event per snapshot device was broadcast, and every
\* other device is as it was (with an empty snapshot nothing changed or was sent)
C8_BulkToggle ==
    ToggleDone =>
        LET ids == Range(kb.device_ids)
            any_recording == \E d \in ids : WasRecording(d)
        IN  /\ kb.new_state = ~any_recording
            /\ \A d \in ids : d \in DOMAIN recording_state /\ recording_state[d] = ~any_recording
            /\ \A d \in Devices \ ids :
                  /\ d \in DOMAIN recording_state <=> d \in DOMAIN kb.before
                  /\ d \in DOMAIN kb.before => recording_state[d] = kb.before[d]
            /\ Len(kb.sent) = Len(kb.device_ids)
            /\ \A i \in 1..Len(kb.sent) :
                  IsDeviceStatus(kb.sent[i], kb.device_ids[i], ~any_recording)

\* d1 registered and Idle, d2 Recording but not registered: d1 turns Recording
C8_Witness ==
    /\ ToggleDone
    /\ kb.device_ids = <<"d1">>
    /\ WasRecording("d2")
    /\ recording_state["d1"] = TRUE

\* the bulk toggle ends with registered devices {d1: Idle, d2: Recording}
ToggleOfIdleAndRecording ==
    /\ ToggleDone
    /\ Range(kb.device_ids) = {"d1", "d2"}
    /\ ~WasRecording("d1")
    /\ WasRecording("d2")

\* C9 as stated: after that toggle both devices are Recording
C9_BothRecording ==
    ToggleOfIdleAndRecording => recording_state["d1"] = TRUE /\ recording_state["d2"] = TRUE

\* C9 amended: after that toggle both devices are Idle
C9_BothIdle ==
    ToggleOfIdleAndRecording => recording_state["d1"] = FALSE /\ recording_state["d2"] = FALSE

C9_Witness == ToggleOfIdleAndRecording

\* the registry entries within the TTL at time t
WithinTTL(ad, t) == SelectSeq(ad, LAMBDA e : t - e.last_seen <= 10)

\* C10: the sweep of /devices returns exactly the entries with
\* now - last_seen <= 10 and leaves exactly those entries in the registry
C10_ListActive ==
    [][(gd_req.pc = "sweep" /\ gd_req'.pc = "done") =>
         LET keep == WithinTTL(active_devices, gd_req.now)
             returned == GetDevices(active_devices, gd_req.now).devices
         IN  /\ active_devices' = keep
             /\ gd_req'.returned = Len(keep)
             /\ Len(returned) = Len(keep)
             /\ \A i \in 1..Len(keep) :
                   /\ returned[i].device_id = keep[i].device_id
                   /\ returned[i].ip = keep[i].ip
                   /\ returned[i].last_seen = keep[i].last_seen
                   /\ returned[i].seconds_ago = gd_req.now - keep[i].last_seen]_vars

\* a sweep met two entries, returned the one seen exactly 10 s before and
\* removed the other
C10_Witness ==
    /\ gd_req.pc = "done"
    /\ gd_req.swept = 2
    /\ gd_req.returned = 1
    /\ Len(active_devices) = 1
    /\ gd_req.now - active_devices[1].last_seen = 10

InRegistry(ad, d) == DictIndex(ad, d) # 0

\* the time of d's last /status poll as the registry holds it
LastSeen(ad, d) == ad[DictIndex(ad, d)].last_seen

\* C11: the registry holds for a device the time of its last /status poll (an
\* entry appears or changes only by a poll, which stamps it with the current
\* time), and a /devices response holds only devices that are in the registry
\* and were polled at most 10 s before the handler's "now"; a device polled
\* longer ago is left out, evicted, and stays out until it polls again
C11_StaleDeviceAbsent ==
    [][\A d \in Devices :
          /\ (gd_req.pc = "sweep" /\ gd_req'.pc = "done") =>
                 /\ d \in Range(gd_req'.response) =>
                        InRegistry(active_devices, d) /\ d \in touched
                 /\ (InRegistry(active_devices, d) /\ gd_req.now - LastSeen(active_devices, d) > 10) =>
                        d \notin Range(gd_req'.response) /\ ~InRegistry(active_devices', d)
          /\ (InRegistry(active_devices', d) /\
                 (~InRegistry(active_devices, d)
                     \/ LastSeen(active_devices', d) # LastSeen(active_devices, d))) =>
                 LastSeen(active_devices', d) = now /\ d \in touched']_vars

\* d1 polled once and was evicted by an earlier /devices; a later /devices
\* that met and returned d2 did not return d1
C11_Witness ==
    /\ gd_req.pc = "done"
    /\ touched = {"d1", "d2"}
    /\ gd_req.swept = 1
    /\ gd_req.response = <<"d2">>
    /\ ~InRegistry(active_devices, "d1")

\* the step is the sweep of /devices
IsSweep == gd_req.pc = "sweep" /\ gd_req'.pc = "done"

\* C12: a step that answers /status (without a device) or /recording-status
\* leaves the registry as it is; a step other than the /devices sweep that
\* changes the registry is the upsert of one polling device's entry, and no
\* such step removes an entry
C12_QueriesDoNotEvict ==
    [][/\ status_resp' # status_resp => active_devices' = active_devices
       /\ (~IsSweep /\ active_devices' # active_devices) =>
              /\ \E d \in Devices, ip \in Addrs :
                     active_devices' = Touch(active_devices, d, now, ip)
              /\ \A d \in Devices :
                     InRegistry(active_devices, d) => InRegistry(active_devices', d)]_vars

\* /recording-status was answered and d1 polled /status while the registry
\* held d2's entry, last polled more than 10 s ago, which no /devices swept
C12_Witness ==
    /\ status_resp.path = "/recording-status"
    /\ gd_req.pc = "idle"
    /\ InRegistry(active_devices, "d1") /\ LastSeen(active_devices, "d1") = now
    /\ InRegistry(active_devices, "d2") /\ now - LastSeen(active_devices, "d2") > 10

Registered(c) == c \in Range(sse_clients)

\* C14: a broadcast_sse call appends its message once to every registered
\* channel whose write succeeds and to no other channel, wherever the failing
\* channels stand in the list, and leaves registered, in their order, exactly
\* the channels whose write succeeded
C14_BroadcastSweep ==
    [][broadcasts' # broadcasts =>
         LET msg == broadcasts'[Len(broadcasts')]
         IN  /\ \A c \in Channels :
                   IF Registered(c) /\ chan_ok[c]
                   THEN written'[c] = Append(written[c], msg)
                   ELSE written'[c] = written[c]
             /\ sse_clients' = SelectSeq(sse_clients, LAMBDA c : chan_ok[c])
             /\ NoDuplicates(sse_clients)]_vars

\* c2 registered first and broke; the broadcast removed it (its handler has
\* not reached "finally") and delivered to c1, registered behind it
C14_Witness ==
    /\ sse_since["c2"] < sse_since["c1"]
    /\ ~chan_ok["c2"] /\ sse_pc["c2"] = "keepalive" /\ ~Registered("c2")
    /\ Registered("c1") /\ Len(Events(written["c1"])) = 1

\* s can be got from t by leaving elements out
RECURSIVE IsSubSeq(_, _)
IsSubSeq(s, t) ==
    IF s = <<>> THEN TRUE
    ELSE IF t = <<>> THEN FALSE
    ELSE IF Head(s) = Head(t) THEN IsSubSeq(Tail(s), Tail(t))
    ELSE IsSubSeq(s, Tail(t))

\* C15: with the keyboard thread as the only caller, broadcasts is the order
\* in which it issued its calls; the events of every channel are in that
\* order, and a channel that received both events of the running toggle
\* received them as they were issued
C15_FifoPerCaller ==
    \A c \in Channels :
        /\ IsSubSeq(Events(written[c]), broadcasts)
        /\ (Len(kb.sent) = 2 /\ Len(Events(written[c])) >= Len(broadcasts) - sse_since[c]
               /\ sse_since[c] <= Len(broadcasts) - 2) =>
               SubSeq(Events(written[c]), Len(Events(written[c])) - 1, Len(Events(written[c])))
                   = kb.sent

\* a toggle of two devices issued two events and a channel received both
C15_Witness ==
    /\ Len(kb.sent) = 2
    /\ kb.sent[1] # kb.sent[2]
    /\ \E c \in Channels :
          /\ Len(Events(written[c])) >= 2
          /\ SubSeq(Events(written[c]), Len(Events(written[c])) - 1, Len(Events(written[c])))
                 = kb.sent

\* the step writes the 200 response of start/stop request r
Responds(r) == r <= Len(rec_req) /\ rec_req[r].code # 200 /\ rec_req'[r].code = 200

\* C16: when the 200 response of a start or stop request is written, the
\* request's value has been written to recording_state before, and by the end
\* of that step every registered channel whose writes succeed holds the
\* request's device_status event as its last message
C16_BroadcastBeforeResponse ==
    [][\A r \in 1..Len(rec_req') :
          Responds(r) =>
              LET d == rec_req[r].device_id
                  v == RecordValue(rec_req[r].op)
              IN  /\ mutations[<<d, v>>] >= 1
                  /\ d \in DOMAIN recording_state
                  /\ broadcasts' = Append(broadcasts, DeviceStatusMsg(d, v))
                  /\ \A c \in Channels :
                        (Registered(c) /\ chan_ok[c]) =>
                            written'[c] = Append(written[c], DeviceStatusMsg(d, v))]_vars

\* a start request was answered after both observers were sent its event
C16_Witness ==
    /\ Len(rec_req) = 1 /\ rec_req[1].code = 200
    /\ \A c \in Channels : Events(written[c]) = <<DeviceStatusMsg("d1", RecordValue(rec_req[1].op))>>

\* the device_status events for d among msgs
StatusEventsOf(msgs, d) ==
    SelectSeq(msgs, LAMBDA m : m.event = "device_status" /\ m.data.device_id = d)

\* c registered before any request wrote (its status snapshot is empty) and
\* is still registered and working
RegisteredThroughout(c) ==
    /\ Registered(c) /\ chan_ok[c]
    /\ sse_pc[c] = "keepalive" /\ sse_status[c] = EmptyDict

\* C17: when every start/stop request has completed, the last device_status
\* event for d that an observer registered throughout received carries
\* recording_state[d]
C17_ObserversConsistent ==
    (\A r \in 1..Len(rec_req) : rec_req[r].pc = "done") =>
        \A c \in Channels, d \in DOMAIN recording_state :
            LET evs == StatusEventsOf(written[c], d)
            IN  (RegisteredThroughout(c) /\ evs # <<>>) =>
                    evs[Len(evs)].data.recording = recording_state[d]

\* a NaN or an Infinity at any depth
RECURSIVE HasNonFinite(_)
HasNonFinite(data) ==
    IF data.type = "dict" THEN \E i \in 1..Len(data.items) : HasNonFinite(data.items[i].v)
    ELSE IF data.type = "list" THEN \E i \in 1..Len(data.items) : HasNonFinite(data.items[i])
    ELSE data.type = "float" /\ data.v \in {"nan", "inf", "-inf"}

\* C18: the result of clean_json_data holds no NaN or Infinity at any depth,
\* and cleaning the result again gives the same value
C18_SanitizeIdempotent ==
    /\ clean_call.pc \in {"once", "twice"} => ~HasNonFinite(clean_call.once)
    /\ clean_call.pc = "twice" => clean_call.twice = clean_call.once

\* a value with a non-finite float below the top level was cleaned twice
C18_Witness ==
    /\ clean_call.pc = "twice"
    /\ clean_call.data.type \in {"list", "dict"}
    /\ HasNonFinite(clean_call.data)
    /\ clean_call.once # clean_call.data

\* C19: the score block ends with a score, and that score is within 0..100
C19_ScoreInRange ==
    (score_call.pc = "done" /\ score_call.audio_quality # EmptyDict) =>
        /\ score_call.result.outcome = "score"
        /\ score_call.result.score >= 0
        /\ score_call.result.score <= 100

\* x < y for ints
NumLess(x, y) ==
    IF x.big # 0 \/ y.big # 0 THEN x.big < y.big ELSE x.n < y.n

\* the score of aq is at least the score of aq2, when both are computed
ScoreNotAbove(aq2, aq) ==
    (QualityScore(aq).outcome = "score" /\ QualityScore(aq2).outcome = "score") =>
        QualityScore(aq2).score <= QualityScore(aq).score

\* C20: the score computed for an audio_quality dict is not exceeded by the
\* score of the same dict with a larger clip_count, with a larger i2s_errors,
\* or with more server-side issues
C20_ScoreMonotone ==
    (score_call.pc = "done" /\ score_call.result.outcome = "score") =>
        LET aq == score_call.audio_quality
        IN  /\ score_call.result = QualityScore(aq)
            /\ \A key \in {"clip_count", "i2s_errors"}, c2 \in CountHints :
                  (Has(aq, key) /\ NumLess(aq[key], c2)) =>
                      ScoreNotAbove([aq EXCEPT ![key] = c2], aq)
            /\ \A n2 \in 0..MAX_ISSUES :
                  (Has(aq, "server_analysis") /\ aq["server_analysis"].issues < n2) =>
                      ScoreNotAbove([aq EXCEPT !["server_analysis"].issues = n2], aq)

\* a score between the limits was computed from counts and issues that can
\* still grow
C20_Witness ==
    /\ score_call.pc = "done"
    /\ score_call.result.outcome = "score"
    /\ score_call.result.score = 50
    /\ Has(score_call.audio_quality, "clip_count")
    /\ score_call.audio_quality["clip_count"] = Num(2)
    /\ Has(score_call.audio_quality, "i2s_errors")
    /\ score_call.audio_quality["i2s_errors"] = Num(1)
    /\ Has(score_call.audio_quality, "server_analysis")
    /\ score_call.audio_quality["server_analysis"].issues = 2

\* every byte of the buffer is zero
AllZero(pcm) == \A k \in 1..Len(pcm) : pcm[k] = 0

\* the job's upload is an all-zero 16-bit buffer that came without device hints
ZeroUpload ==
    /\ job.bits_per_sample = 16
    /\ Len(job.audio_data) >= 2
    /\ AllZero(job.audio_data)
    /\ DOMAIN job.audio_quality \subseteq {"server_analysis"}

\* C21: for an all-zero 16-bit buffer without device hints the analysis reports
\* 100% zero samples, the narrow-range and the high-zero issue and integrity
\* issues_detected, and the score written with the metadata is at most 65.
C21_ZeroBufferScore ==
    (ZeroUpload /\ job.pc \in {"correct", "write", "annotate", "transcribe", "persist",
                               "broadcast", "done"}) =>
        /\ job.analysis.outcome = "result"
        /\ job.analysis.zero_percentage = 1000
        /\ "Very narrow sample range" \in Range(job.analysis.issues)
        /\ "High zero samples" \in Range(job.analysis.issues)
        /\ job.analysis.data_integrity = "issues_detected"
        /\ job.json.saved =>
             /\ job.json.quality_score.outcome = "score"
             /\ job.json.quality_score.score <= 65

C21_Witness ==
    /\ ZeroUpload
    /\ job.pc = "done"
    /\ job.json.saved
    /\ job.json.quality_score.score = 50

TranscriptBroadcast ==
    \E i \in 1..Len(broadcasts) : broadcasts[i] = TranscriptMsg(job)

\* C26: once the job has ended, a transcript event was broadcast and the text
\* and the metadata were persisted if and only if the transcription returned
\* non-empty text; after a timeout, a non-zero exit or empty output nothing was
\* broadcast or persisted but the audio file.
C26_TranscriptIffText ==
    /\ (TranscriptBroadcast \/ job.txt.saved \/ job.json.saved) => job.transcript = "text"
    /\ job.pc \in {"done", "raised"} =>
         /\ job.transcript = "text" <=> (TranscriptBroadcast /\ job.txt.saved /\ job.json.saved)
         /\ job.transcript \in {"empty", "timeout", "exit"} => job.wav.saved

\* C27: every call of the transcription engine runs under a timeout of at
\* least 30 s, whatever the engine, so that a call that does not return on its
\* own is ended.
C27_EngineCallHasTimeout ==
    \A j \in Jobs : engine_calls[j].pc = "running" => engine_calls[j].timeout >= 30

\* the step appends a start or stop request that names no device
ArrivesWithoutDevice ==
    /\ Len(rec_req') = Len(rec_req) + 1
    /\ rec_req'[Len(rec_req')].device_id = ""

\* C28: a start or stop request without a device parameter is answered 400 and
\* changes nothing: recording_state is as before for every device and nothing
\* is broadcast or written to a channel, in that step or later for it.
C28_BadRequestNoEffect ==
    [][ArrivesWithoutDevice =>
          /\ rec_req'[Len(rec_req')].code = 400
          /\ rec_req'[Len(rec_req')].pc = "done"
          /\ recording_state' = recording_state
          /\ mutations' = mutations
          /\ broadcasts' = broadcasts
          /\ written' = written]_vars

\* a request without a device arrived after d1 was started and an observer
\* had registered
C28_Witness ==
    /\ Len(rec_req) = 2
    /\ rec_req[1].code = 200
    /\ rec_req[1].op = "start"
    /\ rec_req[2].code = 400
    /\ rec_req[2].op = "stop"
    /\ recording_state = [d \in {rec_req[1].device_id} |-> TRUE]
    /\ \E c \in Observers : Len(written[c]) > 0

\* C29: however the callers interleave, each library's model is constructed at
\* most once, every call that returns a model returns the one the global holds
\* (so all callers of a library get the same instance), and a call that returns
\* None after both loads failed leaves the global None.
C29_ModelSingleton ==
    /\ \A k \in Libraries : constructed[k] <= 1
    /\ \A r \in model_returns :
         /\ r.value # None => r.value = whisper_model[r.library]
         /\ r.value = None => r.model = None
    /\ \A r1, r2 \in model_returns :
         (r1.library = r2.library /\ r1.value # None /\ r2.value # None) => r1.value = r2.value

\* a call failed with the global left None, a later call loaded the model,
\* and both threads have called
C29_Witness ==
    /\ \E r \in model_returns : r.library = "faster-whisper" /\ r.value = None
    /\ \E r \in model_returns : r.library = "faster-whisper" /\ r.value # None
    /\ constructed["faster-whisper"] = 1
    /\ \A t \in Callers : loader[t].calls >= 1 /\ loader[t].pc = "idle"

\* the locks a thread holds
HeldBy(t) == {l \in Locks : lock_holder[l] = t}

\* t is at an acquire of a lock that is held
Blocked(t) == NextOp(t).op = "acquire" /\ lock_holder[NextOp(t).lock] # "free"

\* every thread of S waits for a lock that a thread of S holds
Deadlocked(S) ==
    /\ S # {}
    /\ \A t \in S : Blocked(t) /\ lock_holder[NextOp(t).lock] \in S

\* C30: no set of threads waits in a cycle for each other's locks; a thread
\* acquires a lock while holding one only in bulk toggle, which holds
\* recording_lock and takes sse_lock; no thread that holds sse_lock takes
\* recording_lock.
C30_NoLockCycle ==
    /\ \A S \in SUBSET Threads : ~Deadlocked(S)
    /\ \A t \in Threads :
         (HeldBy(t) # {} /\ NextOp(t).op = "acquire") =>
             /\ t = "keyboard"
             /\ HeldBy(t) = {"recording_lock"}
             /\ NextOp(t).lock = "sse_lock"
    /\ \A t \in Threads :
         "sse_lock" \in HeldBy(t) => NextOp(t) # Acquire("recording_lock")

\* bulk toggle holds both locks while the SSE handler waits for recording_lock
\* and a start request waits for sse_lock
C30_Witness ==
    /\ HeldBy("keyboard") = {"recording_lock", "sse_lock"}
    /\ Blocked("events") /\ NextOp("events").lock = "recording_lock"
    /\ Blocked("record") /\ NextOp("record").lock = "sse_lock"

\* max(|sample|) and min(|sample|) over the samples
MaxAbs(s) == CHOOSE m \in {Abs(s[k]) : k \in 1..Len(s)} : \A k \in 1..Len(s) : Abs(s[k]) <= m
MinAbs(s) == CHOOSE m \in {Abs(s[k]) : k \in 1..Len(s)} : \A k \in 1..Len(s) : Abs(s[k]) >= m

\* C22: for a non-empty buffer and a bits_per_sample other than 8 and 16,
\* analyze_audio_quality returns the unsupported-bit-depth error value: no
\* result, no other error, no exception.
C22_UnsupportedBitDepth ==
    (dsp_call.pc = "analyzed" /\ Len(dsp_call.pcm) > 0 /\ dsp_call.bits \notin {8, 16}) =>
        dsp_call.analysis = AnalysisError("Unsupported bit depth")

\* C23: the sample_range of a result is max(|sample|) - min(|sample|) over the
\* samples of the buffer.
C23_SampleRange ==
    (dsp_call.pc = "analyzed" /\ dsp_call.analysis.outcome = "result") =>
        LET s == Samples(dsp_call.pcm, dsp_call.bits)
        IN  dsp_call.analysis.sample_range = MaxAbs(s) - MinAbs(s)

\* C24: for an 8-bit or 16-bit buffer, the mean of the samples after a second
\* correction is in absolute value at most the mean after the first (the
\* buffers have the same number of samples, so the sums compare as the means).
C24_SecondPassBias ==
    (dsp_call.pc = "twice" /\ dsp_call.bits \in {8, 16}) =>
        Abs(SumSeq(Samples(dsp_call.second, dsp_call.bits)))
            <= Abs(SumSeq(Samples(dsp_call.first, dsp_call.bits)))

\* d's registry entry is older than 10 s and no /devices has removed it
StaleEntry(d) == InRegistry(active_devices, d) /\ now - LastSeen(active_devices, d) > 10

\* C13: at the end of a bulk toggle a device whose last poll is more than
\* 10 s ago has the recording state it had before, no device_status event was
\* broadcast for it, and new_state is the negation of the OR over the other
\* snapshot devices only
C13_StaleDeviceOffline ==
    ToggleDone =>
        /\ \A d \in Devices :
              StaleEntry(d) =>
                  /\ GetRecording(d) = WasRecording(d)
                  /\ \A i \in 1..Len(kb.sent) : kb.sent[i].data.device_id # d
        /\ kb.new_state =
              ~(\E d \in Range(kb.device_ids) : ~StaleEntry(d) /\ WasRecording(d))


\* C40: for an 8-bit or 16-bit buffer for which the analyzer returns a result,
\* a 16-bit buffer with an odd number of bytes included, remove_dc_offset
\* returns (it does not raise) a buffer of the same length in bytes whose
\* samples are within the range of the depth.
C40_CorrectorTotal ==
    (/\ dsp_call.pc \in {"once", "raised"}
     /\ dsp_call.bits \in {8, 16}
     /\ dsp_call.analysis.outcome = "result") =>
        /\ dsp_call.pc = "once"
        /\ Len(dsp_call.first) = Len(dsp_call.pcm)
        /\ \A k \in 1..Len(Samples(dsp_call.first, dsp_call.bits)) :
              Abs(Samples(dsp_call.first, dsp_call.bits)[k]) <= MaxAmplitude(dsp_call.bits) + 1

\* the step is the write of a start or stop request for device d
IsWriteOf(d) ==
    /\ Len(rec_req') = Len(rec_req) + 1
    /\ rec_req'[Len(rec_req')].device_id = d
    /\ rec_req'[Len(rec_req')].code # 400

\* the step is a read of the recording state: a poll of /status with a device,
\* /status without one, /recording-status, or the snapshot of /events
IsStatusRead ==
    \/ active_devices' # active_devices
    \/ touched' # touched
    \/ status_resp' # status_resp
    \/ sse_status' # sse_status

\* C35: a step changes or creates the entry of a device in recording_state
\* only if it is the write of a start or stop for that device; no entry is
\* ever deleted; a status read leaves recording_state as it is.
C35_StartStopFrame ==
    [][/\ \A d \in DOMAIN recording_state' :
             (d \notin DOMAIN recording_state \/ recording_state'[d] # recording_state[d])
                 => IsWriteOf(d)
       /\ DOMAIN recording_state \subseteq DOMAIN recording_state'
       /\ IsStatusRead => recording_state' = recording_state]_vars

\* d1 is Recording, d2 polled /status and has no entry, and /status and the
\* snapshot of /events returned exactly that
C35_Witness ==
    /\ DOMAIN recording_state = {"d1"}
    /\ recording_state["d1"]
    /\ "d2" \in touched
    /\ status_resp = [path |-> "/status", body |-> recording_state]
    /\ \E c \in Observers : sse_pc[c] = "keepalive" /\ sse_status[c] = recording_state

\* C36: while the bulk toggle holds recording_lock only its own loop changes
\* recording_state, and when it releases the lock every device of its snapshot
\* has the negation of the OR it read.
C36_ToggleAtomic ==
    [][/\ (kb.pc = "loop" /\ kb' = kb) => recording_state' = recording_state
       /\ (kb.pc = "loop" /\ kb'.pc = "idle") =>
             \A i \in 1..Len(kb.device_ids) :
                 GetRecording(kb.device_ids[i])
                     = ~(\E d \in Range(kb.device_ids) : WasRecording(d))]_vars

\* the toggle of two devices is done, and a start request for one of them that
\* wrote before the toggle took the lock has not broadcast yet
C36_Witness ==
    /\ ToggleDone
    /\ Len(kb.device_ids) = 2
    /\ \E r \in 1..Len(rec_req) :
          /\ rec_req[r].pc = "broadcast"
          /\ rec_req[r].op = "start"
          /\ rec_req[r].device_id \in Range(kb.device_ids)
          /\ ~recording_state[rec_req[r].device_id]

\* the request's success response was written
Acknowledged(j) == audio_req[j].response.status = "success"

\* the number of times request j was appended to the queue
TimesEnqueued(j) == Cardinality({i \in 1..Len(enqueued) : enqueued[i] = j})

\* C37 as stated: a request with a non-empty body whose response was written
\* has its job enqueued already, and so has one whose response could not be
\* written
C37_AckAfterEnqueue ==
    \A j \in 1..Len(audio_req) :
        Len(audio_req[j].audio_data) > 0 => TimesEnqueued(j) = 1

\* C37 amended: the job is enqueued after the response: a job that was
\* enqueued belongs to a request whose success response was written, and a
\* request whose response could not be written is never enqueued
C37_EnqueueAfterAck ==
    \A j \in 1..Len(audio_req) :
        /\ TimesEnqueued(j) >= 1 => Acknowledged(j)
        /\ ~Acknowledged(j) => TimesEnqueued(j) = 0 /\ audio_req[j].pc = "failed"

\* one non-empty upload is acknowledged and not enqueued yet, another was not
\* acknowledged, and the worker has taken a third
C37_Witness ==
    /\ \E j \in 1..Len(audio_req) :
          /\ Acknowledged(j)
          /\ Len(audio_req[j].audio_data) > 0
          /\ TimesEnqueued(j) = 0
    /\ \E j \in 1..Len(audio_req) :
          ~Acknowledged(j) /\ Len(audio_req[j].audio_data) > 0
    /\ \E j \in 1..Len(audio_req) : j \in Range(attempts)

\* the step appends an item to the queue
IsEnqueue == Len(transcription_queue') = Len(transcription_queue) + 1

\* the hints a request's headers hold: every X-Audio header with a number
\* that is read before the first malformed one
HintsOf(r) ==
    LET wellFormed(i) ==
            HintFields[i].header \in DOMAIN r.headers =>
                \/ r.headers[HintFields[i].header].kind \in {"int", "empty"}
                \/ /\ r.headers[HintFields[i].header].kind = "decimal"
                   /\ HintFields[i].conv = "float"
    IN  {HintFields[i].key : i \in
            {i \in 1..Len(HintFields) :
                /\ HintFields[i].header \in DOMAIN r.headers
                /\ r.headers[HintFields[i].header].kind # "empty"
                /\ \A k \in 1..i : wellFormed(k)}}

\* C38: an upload whose response is written is answered with success
\* and the number of bytes received; when its handler has ended, one with an
\* empty body (0 bytes) was not enqueued and one with a non-empty body was
\* enqueued exactly once; the item appended carries the request's bytes, device
\* id, sample rate, bit depth, channels and the hints parsed from its headers.
C38_AcknowledgedUploadEnqueuedOnce ==
    /\ [](\A j \in 1..Len(audio_req) :
            /\ Acknowledged(j) =>
                  audio_req[j].response = [status |-> "success",
                                           bytes_received |-> Len(audio_req[j].audio_data)]
            /\ TimesEnqueued(j) <= 1
            /\ audio_req[j].pc = "done" =>
                  TimesEnqueued(j) = (IF Len(audio_req[j].audio_data) = 0 THEN 0 ELSE 1))
    /\ [][IsEnqueue =>
            LET item == transcription_queue'[Len(transcription_queue')]
                r == audio_req[item.job]
            IN  /\ transcription_queue' = Append(transcription_queue, item)
                /\ r.pc = "enqueue"
                /\ Acknowledged(item.job)
                /\ item.audio_data = r.audio_data /\ Len(item.audio_data) > 0
                /\ item.device_id = r.device_id
                /\ item.sample_rate = r.sample_rate
                /\ item.bits_per_sample = r.bits_per_sample
                /\ item.channels = r.channels
                /\ DOMAIN item.audio_quality = HintsOf(r)
                /\ \A i \in 1..Len(HintFields) :
                      HintFields[i].key \in DOMAIN item.audio_quality =>
                          item.audio_quality[HintFields[i].key].n
                              = r.headers[HintFields[i].header].n]_vars

\* an empty upload with a hint header was answered and not enqueued, and an
\* upload whose headers hold three hints is in the queue with all three
C38_Witness ==
    /\ \E j \in 1..Len(audio_req) :
          /\ audio_req[j].pc = "done"
          /\ audio_req[j].audio_data = <<>>
          /\ audio_req[j].response.bytes_received = 0
          /\ audio_req[j].headers # EmptyDict
    /\ \E i \in 1..Len(transcription_queue) :
          DOMAIN transcription_queue[i].audio_quality = {"avg_db", "clip_count", "total_chunks"}

\* the jobs of the transcript events among msgs, in their order
TranscriptJobs(msgs) ==
    LET t == SelectSeq(msgs, LAMBDA m : m.event = "transcript")
    IN  [i \in 1..Len(t) |-> t[i].data.job]

\* C39: the transcript events were broadcast in the order in which their jobs
\* were enqueued, every channel holds its transcript events in that order, and
\* a channel that is registered and working holds every transcript event
\* broadcast since it registered.
C39_TranscriptsInEnqueueOrder ==
    /\ IsSubSeq(TranscriptJobs(broadcasts), enqueued)
    /\ \A c \in Channels :
          /\ IsSubSeq(TranscriptJobs(written[c]), enqueued)
          /\ (Registered(c) /\ chan_ok[c]) =>
                TranscriptJobs(written[c])
                    = TranscriptJobs(SubSeq(broadcasts, sse_since[c] + 1, Len(broadcasts)))

\* the second request was enqueued before the first, both were transcribed,
\* and the observer received the second request's transcript first
C39_Witness ==
    /\ Len(enqueued) >= 2
    /\ enqueued[1] > enqueued[2]
    /\ \E c \in Observers :
          /\ Registered(c)
          /\ TranscriptJobs(written[c]) = <<enqueued[1], enqueued[2]>>

\* l without every occurrence of x
Without(l, x) == SelectSeq(l, LAMBDA y : y # x)

\* C34: a channel is in sse_clients at most once, and not at all once its
\* handler has exited; the handler's removal ends the handler normally whether
\* or not a broadcast removed the channel before, and takes out that channel
\* only; a broadcast takes out broken channels only and keeps the others in
\* their order.
C34_ChannelRegistry ==
    /\ [](/\ NoDuplicates(sse_clients)
          /\ \A c \in Channels : sse_pc[c] = "closed" => ~Registered(c))
    /\ [][/\ \A c \in Channels :
                (sse_pc[c] = "finally" /\ sse_pc'[c] # "finally") =>
                    /\ sse_pc'[c] = "closed"
                    /\ sse_clients' = Without(sse_clients, c)
          /\ broadcasts' # broadcasts =>
                /\ \A c \in Range(sse_clients) \ Range(sse_clients') : ~chan_ok[c]
                /\ IsSubSeq(sse_clients', sse_clients)]_vars

\* c2 broke and its handler has exited after a broadcast had removed it,
\* c1 broke, a broadcast removed it, and its handler is about to unregister
C34_Witness ==
    /\ sse_pc["c2"] = "closed"
    /\ sse_pc["c1"] = "finally"
    /\ sse_since["c1"] < sse_since["c2"]
    /\ sse_clients = <<>>
    /\ Len(broadcasts) > sse_since["c2"]

\* request r wrote to recording_state
Wrote(r) == rec_req[r].code # 400

\* recording_state after the writes of the first k start and stop requests
RECURSIVE StateAfter(_)
StateAfter(k) ==
    IF k = 0 THEN EmptyDict
    ELSE IF Wrote(k)
         THEN [d \in DOMAIN StateAfter(k - 1) \cup {rec_req[k].device_id} |->
                  IF d = rec_req[k].device_id THEN rec_req[k].op = "start"
                  ELSE StateAfter(k - 1)[d]]
         ELSE StateAfter(k - 1)

\* the requests after the k-th that wrote v for d and have broadcast
BroadcastAfter(k, d, v) ==
    {r \in (k + 1)..Len(rec_req) :
        /\ Wrote(r) /\ rec_req[r].pc = "done"
        /\ rec_req[r].device_id = d /\ (rec_req[r].op = "start") = v}

C32_ChannelWritesExclusive ==
    \A c \in Channels : Cardinality(writing[c]) <= 1

\* the pieces on a channel that broadcast sweeps wrote
SweepPieces(c) == SelectSeq(wire[c], LAMBDA p : p.by \in Broadcasters)

\* the place of message m among msgs (0: absent)
Position(msgs, m) ==
    IF \E i \in 1..Len(msgs) : msgs[i] = m
    THEN CHOOSE i \in 1..Len(msgs) : msgs[i] = m /\ \A k \in 1..(i - 1) : msgs[k] # m
    ELSE 0

\* C33: at most one thread is inside a sweep; on every channel each first
\* piece of a broadcast event is followed, among the pieces of broadcast
\* events, by the last piece of the same event; and two channels that both
\* received the events of two broadcasts received them in the same order, the
\* order in which the sweeps began.
C33_SweepsAtomic ==
    /\ Cardinality({b \in Broadcasters : sweep[b].pc \in {"sweep", "write"}}) <= 1
    /\ \A c \in Channels :
          LET p == SweepPieces(c)
          IN  \A i \in 1..Len(p) :
                  IF p[i].piece = "first"
                  THEN i < Len(p) => (p[i + 1].by = p[i].by /\ p[i + 1].piece = "last")
                  ELSE i > 1 /\ p[i - 1].by = p[i].by /\ p[i - 1].piece = "first"
    /\ \A c1, c2 \in Channels, b1, b2 \in Broadcasters :
          (/\ Position(written[c1], SweepMsg(b1)) # 0 /\ Position(written[c1], SweepMsg(b2)) # 0
           /\ Position(written[c2], SweepMsg(b1)) # 0 /\ Position(written[c2], SweepMsg(b2)) # 0)
          => /\ (Position(written[c1], SweepMsg(b1)) < Position(written[c1], SweepMsg(b2)))
                  <=> (Position(written[c2], SweepMsg(b1)) < Position(written[c2], SweepMsg(b2)))
             /\ (Position(written[c1], SweepMsg(b1)) < Position(written[c1], SweepMsg(b2)))
                  <=> (Position(broadcasts, SweepMsg(b1)) < Position(broadcasts, SweepMsg(b2)))

\* the stop handler's sweep ran first: both observers received its event and
\* then the start handler's
C33_Witness ==
    \A c \in Channels : Events(written[c]) = <<SweepMsg("stop"), SweepMsg("start")>>
====
